---- MODULE Spec2Model ----
(***************************************************************************)
(* Model of HttpClient (src/src/core/utils.ts): construction of the        *)
(* client configuration, assembly of the outgoing request headers with the *)
(* authentication step, the transport outcome, and the interpretation of   *)
(* the response (error gate, no-content, JSON parse, success-wrapper       *)
(* unwrapping, expectedStatus), the composition of the abort signals and   *)
(* the classification of a failed fetch(), and the resource methods that   *)
(* validate their input, call request() and validate its result.           *)
(*                                                                         *)
(* Representation                                                          *)
(*   plain JS object   sequence of [k, v] entries in insertion order, the  *)
(*                     keys distinct and case-sensitive                    *)
(*   Headers           function from lower-cased header names to the       *)
(*                     string Headers.get() returns (values appended under *)
(*                     one name are joined with ", ")                      *)
(*   JS value          record tagged by typeof: [t |-> "string", v |-> s]  *)
(*   undefined config  the string Undefined                                *)
(*   error message     the fixed prefix of the message template            *)
(***************************************************************************)
EXTENDS Integers, Sequences, FiniteSets, TLC

VARIABLES
    config,     \* HttpClient.config, set by the constructor
    pc,         \* position of the request() call: idle, fetching, responded, done
    options,    \* the RequestOptions of the call in progress
    outgoing,   \* the init object handed to fetch()
    response,   \* the Response fetch() resolved with
    result,     \* how the call settled: pending, return value, or thrown error
    prev,       \* expectedStatus declared by the previous call of this client
    signals,    \* the AbortSignals of the call in progress and their combination
    transport,  \* fetch() of the call in progress: calls made, rejection, late response
    bodyUsed,   \* response.bodyUsed: json() or text() has been called on the response
    api,        \* the resource method in progress: method, input, outcome
    arg,        \* the object the caller passed to the constructor, owned by the caller
    second      \* the variables of a second request() call on the client, suspended

vars == <<config, pc, options, outgoing, response, result, prev,
          signals, transport, bodyUsed, api, arg, second>>

----------------------------------------------------------------------------
(* Bounds *)

MaxDefaultHeaders == 1
MaxCallHeaders == 2
MaxWrapDepth == 2
MaxSlashes == 2

----------------------------------------------------------------------------
(* JS values *)

Undefined == "$undefined"

\* JS truthiness of an optional string field of the config
Truthy(s) == s # Undefined /\ s # ""

JUndefined == [t |-> "undefined"]
JNull == [t |-> "null"]
JBool(b) == [t |-> "boolean", v |-> b]
JStr(s) == [t |-> "string", v |-> s]
JNum(n) == [t |-> "number", v |-> n]
JDate(s) == [t |-> "date", v |-> s]
JObj(f) == [t |-> "object", f |-> f]
JArr(e) == [t |-> "array", e |-> e]

----------------------------------------------------------------------------
(* Plain objects: { ...a, ...b } *)

Entry(k, v) == [k |-> k, v |-> v]

ObjKeys(o) == {o[i].k : i \in DOMAIN o}

ObjGet(o, k) == o[CHOOSE i \in DOMAIN o : o[i].k = k].v

\* keys keep the position of their first insertion, values are the last written
ObjectSpread(a, b) ==
    [i \in DOMAIN a |-> IF a[i].k \in ObjKeys(b) THEN Entry(a[i].k, ObjGet(b, a[i].k)) ELSE a[i]]
        \o SelectSeq(b, LAMBDA e : e.k \notin ObjKeys(a))

\* all objects with at most n entries, keys from K (distinct), values from V
ObjectsUpTo(K, V, n) ==
    {o \in UNION {[1..m -> [k : K, v : V]] : m \in 0..n} : Cardinality(ObjKeys(o)) = Len(o)}

----------------------------------------------------------------------------
(* Headers (WHATWG fetch): names are case-insensitive *)

LowerName(k) ==
    CASE k = "X-API-Key" -> "x-api-key"
      [] k = "Authorization" -> "authorization"
      [] k = "X-Organization-ID" -> "x-organization-id"
      [] k = "Content-Type" -> "content-type"
      [] k = "Content-Length" -> "content-length"
      [] k = "X-Wallet-ID" -> "x-wallet-id"
      [] OTHER -> k

HeadersHas(h, k) == LowerName(k) \in DOMAIN h

\* Headers.get: null for a missing name
HeadersGet(h, k) == IF HeadersHas(h, k) THEN h[LowerName(k)] ELSE Undefined

HeadersSet(h, k, v) ==
    [n \in DOMAIN h \cup {LowerName(k)} |-> IF n = LowerName(k) THEN v ELSE h[n]]

HeadersAppend(h, k, v) ==
    [n \in DOMAIN h \cup {LowerName(k)} |->
        IF n = LowerName(k)
        THEN (IF HeadersHas(h, k) THEN h[n] \o ", " \o v ELSE v)
        ELSE h[n]]

HeadersDelete(h, k) == [n \in DOMAIN h \ {LowerName(k)} |-> h[n]]

EmptyHeaders == [n \in {} |-> ""]

\* new Headers(record): every entry of the record is appended in order
RECURSIVE AppendAll(_, _)
AppendAll(h, o) ==
    IF o = <<>> THEN h
    ELSE AppendAll(HeadersAppend(h, Head(o).k, Head(o).v), Tail(o))

NewHeaders(o) == AppendAll(EmptyHeaders, o)

----------------------------------------------------------------------------
(* HttpClient constructor *)

\* this.config = { ...config, defaultHeaders: { 'Content-Type': ..., ...config.defaultHeaders } }
\* baseURL: config.baseURL.replace(/\/$/, ''). A string that matters for its
\* slashes is a sequence of pieces, each "/" a piece of its own.
HttpClientConstructor(c) ==
    [c EXCEPT !.baseURL = IF c.baseURL[Len(c.baseURL)] = "/"
                          THEN SubSeq(c.baseURL, 1, Len(c.baseURL) - 1)
                          ELSE c.baseURL,
              !.defaultHeaders =
                  ObjectSpread(<<Entry("Content-Type", "application/json")>>, c.defaultHeaders)]

\* SharedWithArgument of a constructor that keeps the argument's defaultHeaders
SharedWithArgument_DefaultHeaders == {"defaultHeaders"}

\* the objects of this.config that are the objects the caller passed: the
\* config is a new object literal into which the argument's fields are copied,
\* and its defaultHeaders is a new object literal too
SharedWithArgument == {}

\* the caller's write of v to a field of the constructor's argument, or of the
\* header k of its defaultHeaders, as this.config sees it
AfterWrite(cfg, field, k, v) ==
    IF field = "defaultHeaders"
    THEN (IF {"config", "defaultHeaders"} \cap SharedWithArgument # {}
          THEN [cfg EXCEPT !.defaultHeaders = ObjectSpread(@, <<Entry(k, v)>>)]
          ELSE cfg)
    ELSE (IF "config" \in SharedWithArgument THEN [cfg EXCEPT ![field] = v] ELSE cfg)

----------------------------------------------------------------------------
(* HttpClient.request: headers *)

\* ResolveAuth without the removal of Authorization under API-key authentication
ResolveAuth_KeepsAuthorization(headers, cfg) ==
    IF Truthy(cfg.apiKey)
    THEN LET h1 == HeadersSet(headers, "X-API-Key", cfg.apiKey)
         IN IF Truthy(cfg.organizationId)
            THEN HeadersSet(h1, "X-Organization-ID", cfg.organizationId)
            ELSE h1
    ELSE IF Truthy(cfg.authToken)
    THEN LET h1 == HeadersSet(headers, "Authorization", "Bearer " \o cfg.authToken)
         IN IF Truthy(cfg.organizationId) /\ ~HeadersHas(h1, "X-Organization-ID")
            THEN HeadersSet(h1, "X-Organization-ID", cfg.organizationId)
            ELSE h1
    ELSE headers

\* ResolveAuth whose bearer branch sets X-Organization-ID without looking for one
ResolveAuth_BearerOverridesOrg(headers, cfg) ==
    IF Truthy(cfg.apiKey)
    THEN LET h1 == HeadersSet(headers, "X-API-Key", cfg.apiKey)
             h2 == IF Truthy(cfg.organizationId)
                   THEN HeadersSet(h1, "X-Organization-ID", cfg.organizationId)
                   ELSE h1
         IN HeadersDelete(h2, "Authorization")
    ELSE IF Truthy(cfg.authToken)
    THEN LET h1 == HeadersSet(headers, "Authorization", "Bearer " \o cfg.authToken)
         IN IF Truthy(cfg.organizationId)
            THEN HeadersSet(h1, "X-Organization-ID", cfg.organizationId)
            ELSE h1
    ELSE headers

\* the authentication and organization step
ResolveAuth(headers, cfg) ==
    IF Truthy(cfg.apiKey)
    THEN LET h1 == HeadersSet(headers, "X-API-Key", cfg.apiKey)
             h2 == IF Truthy(cfg.organizationId)
                   THEN HeadersSet(h1, "X-Organization-ID", cfg.organizationId)
                   ELSE h1
         IN HeadersDelete(h2, "Authorization")
    ELSE IF Truthy(cfg.authToken)
    THEN LET h1 == HeadersSet(headers, "Authorization", "Bearer " \o cfg.authToken)
         IN IF Truthy(cfg.organizationId) /\ ~HeadersHas(h1, "X-Organization-ID")
            THEN HeadersSet(h1, "X-Organization-ID", cfg.organizationId)
            ELSE h1
    ELSE headers

\* MergeHeaders with the spread reversed: the defaults overwrite the call's headers
MergeHeaders_DefaultsWin(cfg, requestHeaders) ==
    NewHeaders(ObjectSpread(requestHeaders, cfg.defaultHeaders))

\* new Headers({ ...this.config.defaultHeaders, ...requestHeaders })
MergeHeaders(cfg, requestHeaders) ==
    NewHeaders(ObjectSpread(cfg.defaultHeaders, requestHeaders))

PrepareHeaders(cfg, requestHeaders) ==
    ResolveAuth(MergeHeaders(cfg, requestHeaders), cfg)

----------------------------------------------------------------------------
(* Response bodies and JSON.parse *)

TxtId == "{\"id\":\"1\"}"
TxtError == "{\"error\":\"not found\"}"
TxtNull == "null"
TxtArray == "[{\"id\":\"1\"}]"
TxtSuccessFalse == "{\"success\":false,\"data\":{\"id\":\"1\"}}"
TxtSuccessString == "{\"success\":\"true\",\"data\":{\"id\":\"1\"}}"
TxtSuccessNoData == "{\"success\":true}"
TxtHtml == "<html>Bad Gateway</html>"
TxtEmpty == ""

\* the text of the success wrapper around the JSON text t
WrapText(t) == "{\"success\":true,\"data\":" \o t \o "}"

JId == JObj([id |-> JStr("1")])

BaseJson ==
    (TxtId :> JId)
    @@ (TxtError :> JObj([error |-> JStr("not found")]))
    @@ (TxtNull :> JNull)
    @@ (TxtArray :> JArr(<<JId>>))
    @@ (TxtSuccessFalse :> JObj([success |-> JBool(FALSE), data |-> JId]))
    @@ (TxtSuccessString :> JObj([success |-> JStr("true"), data |-> JId]))
    @@ (TxtSuccessNoData :> JObj([success |-> JBool(TRUE)]))

\* wire values of the resource endpoints
Uuid1 == "7d3f2a10-5b7c-4e1a-9f00-3c2b1a000001"
Iso1 == "2025-01-01T00:00:00Z"

\* the bodies of the resource endpoints and what JSON.parse makes of them: a
\* wallet, a wallet of unknown status, lists of wallets, of transactions and of
\* approvals (two with one invalid element), the wallet in a success wrapper, a
\* wallet of an organization with metadata, API keys in their wrapper (with an
\* expiry, without one, without the secret), the result of a contract call
ResourceJson ==
    LET wallet == JObj([id |-> JStr(Uuid1), user_id |-> JStr(Uuid1),
                              address |-> JStr("0xabc"), blockchain |-> JStr("ethereum"),
                              name |-> JStr("main"), status |-> JStr("active"),
                              created_at |-> JStr(Iso1), updated_at |-> JStr(Iso1)])
        closed == JObj([wallet.f EXCEPT !.status = JStr("closed")])
        approval == JObj([id |-> JStr(Uuid1), transactionId |-> JStr(Uuid1),
                                status |-> JStr("pending"), requestedBy |-> JStr(Uuid1),
                                requestedAt |-> JStr(Iso1), expiresAt |-> JStr(Iso1),
                                createdAt |-> JStr(Iso1), updatedAt |-> JStr(Iso1)])
        expired == JObj([k \in DOMAIN approval.f \ {"expiresAt"} |-> approval.f[k]])
        transaction == JObj([id |-> JStr(Uuid1), walletId |-> JStr(Uuid1),
                                   blockchain |-> JStr("ethereum"),
                                   status |-> JStr("confirmed"), amount |-> JStr("1"),
                                   recipient |-> JStr("0xdef"), createdAt |-> JStr(Iso1),
                                   updatedAt |-> JStr(Iso1)])
        txtWallet == "{\"id\":\"7d3f2a10-5b7c-4e1a-9f00-3c2b1a000001\",\"user_id\":\"7d3"
            \o "f2a10-5b7c-4e1a-9f00-3c2b1a000001\",\"address\":\"0xabc\",\"blockc"
            \o "hain\":\"ethereum\",\"name\":\"main\",\"status\":\"active\",\"crea"
            \o "ted_at\":\"2025-01-01T00:00:00Z\",\"updated_at\":\"2025-01-01T00:0"
            \o "0:00Z\"}"
        txtClosed == "{\"id\":\"7d3f2a10-5b7c-4e1a-9f00-3c2b1a000001\",\"user_id\":\"7d3"
            \o "f2a10-5b7c-4e1a-9f00-3c2b1a000001\",\"address\":\"0xabc\",\"blockc"
            \o "hain\":\"ethereum\",\"name\":\"main\",\"status\":\"closed\",\"crea"
            \o "ted_at\":\"2025-01-01T00:00:00Z\",\"updated_at\":\"2025-01-01T00:0"
            \o "0:00Z\"}"
        txtApproval == "{\"id\":\"7d3f2a10-5b7c-4e1a-9f00-3c2b1a000001\",\"transactionId\""
            \o ":\"7d3f2a10-5b7c-4e1a-9f00-3c2b1a000001\",\"status\":\"pending\",\""
            \o "requestedBy\":\"7d3f2a10-5b7c-4e1a-9f00-3c2b1a000001\",\"requested"
            \o "At\":\"2025-01-01T00:00:00Z\",\"expiresAt\":\"2025-01-01T00:00:00Z"
            \o "\",\"createdAt\":\"2025-01-01T00:00:00Z\",\"updatedAt\":\"2025-01-"
            \o "01T00:00:00Z\"}"
        txtExpired == "{\"id\":\"7d3f2a10-5b7c-4e1a-9f00-3c2b1a000001\",\"transactionId\""
            \o ":\"7d3f2a10-5b7c-4e1a-9f00-3c2b1a000001\",\"status\":\"pending\",\""
            \o "requestedBy\":\"7d3f2a10-5b7c-4e1a-9f00-3c2b1a000001\",\"requested"
            \o "At\":\"2025-01-01T00:00:00Z\",\"createdAt\":\"2025-01-01T00:00:00Z"
            \o "\",\"updatedAt\":\"2025-01-01T00:00:00Z\"}"
        txtTransaction == "{\"id\":\"7d3f2a10-5b7c-4e1a-9f00-3c2b1a000001\",\"walletId\":\"7d"
            \o "3f2a10-5b7c-4e1a-9f00-3c2b1a000001\",\"blockchain\":\"ethereum\",\""
            \o "status\":\"confirmed\",\"amount\":\"1\",\"recipient\":\"0xdef\",\""
            \o "createdAt\":\"2025-01-01T00:00:00Z\",\"updatedAt\":\"2025-01-01T00"
            \o ":00:00Z\"}"
        walletOrg == JObj(wallet.f @@ [metadata |-> JObj([purpose |-> JStr("treasury")]),
                                       organization_id |-> JStr(Uuid1)])
        apiKey == JObj([id |-> JStr(Uuid1), name |-> JStr("ci-key"),
                        key |-> JStr("sk_live_1"),
                        permissions |-> JArr(<<JStr("wallets:read")>>),
                        status |-> JStr("active"), expires_at |-> JStr(Iso1),
                        created_at |-> JStr(Iso1), organization_id |-> JStr(Uuid1)])
        apiKeyNoExpiry == JObj([apiKey.f EXCEPT !.expires_at = JNull])
        apiKeyMasked == JObj([k \in DOMAIN apiKey.f \ {"key", "expires_at"} |-> apiKey.f[k]])
        executed == JObj([transaction_hash |-> JStr("0x1"), status |-> JStr("pending")])
        txtWalletOrg == "{\"id\":\"7d3f2a10-5b7c-4e1a-9f00-3c2b1a000001\",\"user_id\":\"7"
            \o "d3f2a10-5b7c-4e1a-9f00-3c2b1a000001\",\"address\":\"0xabc\",\"bl"
            \o "ockchain\":\"ethereum\",\"name\":\"main\",\"status\":\"active\","
            \o "\"metadata\":{\"purpose\":\"treasury\"},\"created_at\":\"2025-01"
            \o "-01T00:00:00Z\",\"updated_at\":\"2025-01-01T00:00:00Z\",\"organi"
            \o "zation_id\":\"7d3f2a10-5b7c-4e1a-9f00-3c2b1a000001\"}"
        txtApiKey == "{\"id\":\"7d3f2a10-5b7c-4e1a-9f00-3c2b1a000001\",\"name\":\"ci-k"
            \o "ey\",\"key\":\"sk_live_1\",\"permissions\":[\"wallets:read\"],\""
            \o "status\":\"active\",\"expires_at\":\"2025-01-01T00:00:00Z\",\"cr"
            \o "eated_at\":\"2025-01-01T00:00:00Z\",\"organization_id\":\"7d3f2a"
            \o "10-5b7c-4e1a-9f00-3c2b1a000001\"}"
        txtApiKeyNoExpiry == "{\"id\":\"7d3f2a10-5b7c-4e1a-9f00-3c2b1a000001\",\"name\":\"ci-k"
            \o "ey\",\"key\":\"sk_live_1\",\"permissions\":[\"wallets:read\"],\""
            \o "status\":\"active\",\"expires_at\":null,\"created_at\":\"2025-01"
            \o "-01T00:00:00Z\",\"organization_id\":\"7d3f2a10-5b7c-4e1a-9f00-3c"
            \o "2b1a000001\"}"
        txtApiKeyMasked == "{\"id\":\"7d3f2a10-5b7c-4e1a-9f00-3c2b1a000001\",\"name\":\"ci-k"
            \o "ey\",\"permissions\":[\"wallets:read\"],\"status\":\"active\",\""
            \o "created_at\":\"2025-01-01T00:00:00Z\",\"organization_id\":\"7d3f"
            \o "2a10-5b7c-4e1a-9f00-3c2b1a000001\"}"
        txtExecuted == "{\"transaction_hash\":\"0x1\",\"status\":\"pending\"}"
    IN (txtWallet :> wallet)
       @@ (txtClosed :> closed)
       @@ (WrapText(txtWallet) :> JObj([success |-> JBool(TRUE), data |-> wallet]))
       @@ ("{\"wallets\":[" \o txtWallet \o "],\"totalCount\":1}" :>
              JObj([wallets |-> JArr(<<wallet>>), totalCount |-> JNum(1)]))
       @@ ("{\"wallets\":[" \o txtWallet \o "," \o txtClosed \o "],\"totalCount\":2}" :>
              JObj([wallets |-> JArr(<<wallet, closed>>), totalCount |-> JNum(2)]))
       @@ ("{\"transactions\":[" \o txtTransaction \o "],\"totalCount\":1}" :>
              JObj([transactions |-> JArr(<<transaction>>), totalCount |-> JNum(1)]))
       @@ ("[" \o txtApproval \o "]" :> JArr(<<approval>>))
       @@ ("[" \o txtApproval \o "," \o txtExpired \o "]" :> JArr(<<approval, expired>>))
       @@ (txtWalletOrg :> walletOrg)
       @@ (WrapText(txtApiKey) :> JObj([success |-> JBool(TRUE), data |-> apiKey]))
       @@ (WrapText(txtApiKeyNoExpiry) :>
              JObj([success |-> JBool(TRUE), data |-> apiKeyNoExpiry]))
       @@ (WrapText(txtApiKeyMasked) :> JObj([success |-> JBool(TRUE), data |-> apiKeyMasked]))
       @@ (txtExecuted :> executed)

RECURSIVE JsonTexts(_)
JsonTexts(depth) ==
    IF depth = 0 THEN DOMAIN BaseJson
    ELSE JsonTexts(depth - 1) \cup {WrapText(t) : t \in JsonTexts(depth - 1)}

SyntaxError == [t |-> "SyntaxError"]

\* JSON.parse on the texts above; SyntaxError for a text that is not JSON
RECURSIVE JSONParse(_, _)
JSONParse(text, depth) ==
    IF text \in DOMAIN BaseJson THEN BaseJson[text]
    ELSE IF text \in DOMAIN ResourceJson THEN ResourceJson[text]
    ELSE IF depth > 0 /\ \E u \in JsonTexts(depth - 1) : text = WrapText(u)
    THEN LET u == CHOOSE u \in JsonTexts(depth - 1) : text = WrapText(u)
         IN JObj([success |-> JBool(TRUE), data |-> JSONParse(u, depth - 1)])
    ELSE SyntaxError

\* a response body: the text on the wire, or a stream whose read fails
Body(text) == [readable |-> TRUE, text |-> text]
UnreadableBody == [readable |-> FALSE, text |-> ""]

\* response.json(): the parsed value, or a rejection
ResponseJson(resp) ==
    IF resp.body.readable THEN JSONParse(resp.body.text, MaxWrapDepth + 1) ELSE SyntaxError

\* response.text(): the raw text, or a rejection
ResponseText(resp) ==
    IF resp.body.readable THEN JStr(resp.body.text) ELSE SyntaxError

Rejected(v) == v = SyntaxError

----------------------------------------------------------------------------
(* Errors (SDKError and its subclasses) and settled calls *)

SDKError(message) == [name |-> "SDKError", message |-> message]

APIError(message, status, responseBody, headers) ==
    [name |-> "APIError", message |-> message, status |-> status,
     responseBody |-> responseBody, headers |-> headers]

AuthenticationError(message) == [name |-> "AuthenticationError", message |-> message]

NetworkError(message, cause) == [name |-> "NetworkError", message |-> message, cause |-> cause]

\* issues is a JS value: an array of issues, or undefined when the constructor
\* is called with the message alone
ValidationError(message, issues) ==
    [name |-> "ValidationError", message |-> message, issues |-> issues]

\* the error of the schema library, thrown by Schema.parse()
ZodError(issues) == [name |-> "ZodError", issues |-> issues]

Pending == [kind |-> "pending"]
Return(value) == [kind |-> "return", value |-> value]
Throw(error) == [kind |-> "throw", error |-> error]

----------------------------------------------------------------------------
(* HttpClient.request: address, query parameters and body *)

\* String(value) and Date.prototype.toISOString() on the values of the model
StringOf(v) ==
    CASE v.t = "string" -> v.v
      [] v.t = "number" -> ToString(v.v)
      [] v.t = "boolean" -> IF v.v THEN "true" ELSE "false"
      [] v.t = "date" -> "Wed Jan 01 2025 00:00:00 GMT+0000 (Coordinated Universal Time)"

\* the model has one date, 2025-01-01T00:00:00Z
toISOString(d) == "2025-01-01T00:00:00.000Z"

\* formatQueryParams(params): dates as ISO strings, undefined and null dropped
formatQueryParams(params) ==
    LET kept == SelectSeq(params, LAMBDA e : e.v.t \notin {"undefined", "null"})
    IN [i \in DOMAIN kept |->
            IF kept[i].v.t = "date" THEN Entry(kept[i].k, JStr(toISOString(kept[i].v)))
            ELSE kept[i]]

\* new URL(baseURL + (path.startsWith('/') ? path : '/' + path)) and the entries
\* appended to url.searchParams; the addresses of the model have no piece that
\* the URL parser rewrites, and queryParams absent is the empty object
RequestURL(cfg, path, queryParams) ==
    [href |-> cfg.baseURL \o (IF path # <<>> /\ Head(path) = "/" THEN path ELSE <<"/">> \o path),
     searchParams |->
        LET kept == SelectSeq(queryParams, LAMBDA e : e.v.t \notin {"undefined", "null"})
        IN [i \in DOMAIN kept |-> Entry(kept[i].k, StringOf(kept[i].v))]]

\* the truthiness of a JS value
ToBoolean(v) ==
    CASE v.t \in {"undefined", "null"} -> FALSE
      [] v.t = "boolean" -> v.v
      [] v.t = "number" -> v.v # 0
      [] v.t = "string" -> v.v # ""
      [] OTHER -> TRUE

\* the JSON value that JSON.stringify writes for v: keys whose value is
\* undefined are left out, undefined in an array is null, a Date is its ISO string
RECURSIVE ToJSON(_)
ToJSON(v) ==
    CASE v.t = "object" ->
            JObj([k \in {k \in DOMAIN v.f : v.f[k].t # "undefined"} |-> ToJSON(v.f[k])])
      [] v.t = "array" ->
            JArr([i \in DOMAIN v.e |-> IF v.e[i].t = "undefined" THEN JNull
                                       ELSE ToJSON(v.e[i])])
      [] v.t = "date" -> JStr(toISOString(v))
      [] OTHER -> v

\* JSON.stringify(v): the text, or a TypeError for an object that refers to
\* itself; the text of a value outside the table of texts is named by the JSON
\* value it spells
JSONStringify(v) ==
    CASE v.t \in {"string", "number", "boolean"} ->
            JStr(IF v.t = "string" THEN "\"" \o v.v \o "\"" ELSE StringOf(v))
      [] v.t \in {"object", "array"} /\ "cyclic" \in DOMAIN v -> [t |-> "TypeError"]
      [] v.t \in {"object", "array"} /\ \E text \in DOMAIN BaseJson : BaseJson[text] = v ->
            JStr(CHOOSE text \in DOMAIN BaseJson : BaseJson[text] = v)
      [] OTHER -> [t |-> "string", json |-> ToJSON(v)]

\* body instanceof FormData || typeof body === 'string' || ...
IsPayload(body) == body.t \in {"string", "FormData", "URLSearchParams", "Blob"}

\* PrepareBody that reports the failure of JSON.stringify as a transport failure
PrepareBody_FailureIsNetworkError(headers, body) ==
    IF ~ToBoolean(body) THEN [kind |-> "ready", requestBody |-> JNull, headers |-> headers]
    ELSE IF IsPayload(body)
    THEN [kind |-> "ready", requestBody |-> body,
          headers |-> HeadersDelete(headers, "Content-Type")]
    ELSE LET text == JSONStringify(body)
         IN IF text.t = "TypeError"
            THEN Throw(NetworkError("Network request failed", text))
            ELSE [kind |-> "ready", requestBody |-> text,
                  headers |-> IF HeadersHas(headers, "Content-Type") THEN headers
                              ELSE HeadersSet(headers, "Content-Type", "application/json")]

\* the body handed to fetch() and the headers after the body was prepared
PrepareBody(headers, body) ==
    IF ~ToBoolean(body) THEN [kind |-> "ready", requestBody |-> JNull, headers |-> headers]
    ELSE IF IsPayload(body)
    THEN [kind |-> "ready", requestBody |-> body,
          headers |-> HeadersDelete(headers, "Content-Type")]
    ELSE LET text == JSONStringify(body)
         IN IF text.t = "TypeError"
            THEN Throw(SDKError("Failed to stringify request body as JSON"))
            ELSE [kind |-> "ready", requestBody |-> text,
                  headers |-> IF HeadersHas(headers, "Content-Type") THEN headers
                              ELSE HeadersSet(headers, "Content-Type", "application/json")]

----------------------------------------------------------------------------
(* HttpClient.request: interpretation of the response *)

NoExpectedStatus == 0

\* response.ok
ResponseOk(resp) == resp.status \in 200..299

\* contentType.includes('application/json') on the content types of the model
IncludesApplicationJson(ct) ==
    ct \in {"application/json", "application/json; charset=utf-8"}

\* IsErrorResponse that takes no account of the call's expectedStatus
IsErrorResponse_StatusOnly(resp, expectedStatus) == ~ResponseOk(resp)

\* the error branch is taken
IsErrorResponse(resp, expectedStatus) ==
    ~ResponseOk(resp)
    /\ ~(expectedStatus # NoExpectedStatus /\ resp.status = expectedStatus)

\* errorBody: parsed JSON or raw text, null when reading or parsing failed
ErrorBody(resp) ==
    LET contentType == HeadersGet(resp.headers, "content-type")
        read == IF Truthy(contentType) /\ IncludesApplicationJson(contentType)
                THEN ResponseJson(resp)
                ELSE ResponseText(resp)
    IN IF Rejected(read) THEN JNull ELSE read

\* HandleErrorResponse that classifies 401 alone as an authentication failure
HandleErrorResponse_403AsApi(resp) ==
    IF resp.status = 401
    THEN Throw(AuthenticationError("Authentication failed"))
    ELSE Throw(APIError("API request failed with status", resp.status, ErrorBody(resp), resp.headers))

HandleErrorResponse(resp) ==
    IF resp.status = 401 \/ resp.status = 403
    THEN Throw(AuthenticationError("Authentication failed"))
    ELSE Throw(APIError("API request failed with status", resp.status, ErrorBody(resp), resp.headers))

\* isSuccessWrapper without the test res.success === true
isSuccessWrapper_AnyFlag(res) ==
    /\ res.t = "object"
    /\ "success" \in DOMAIN res.f
    /\ res.f["success"].t = "boolean"
    /\ "data" \in DOMAIN res.f

\* the type guard (typeof [] is 'object'; an array has no success member); the
\* bodies of the model have no member named hasOwnProperty
isSuccessWrapper(res) ==
    /\ res.t \in {"object", "array"}
    /\ res.t = "object"
    /\ "success" \in DOMAIN res.f
    /\ res.f["success"].t = "boolean"
    /\ res.f["success"].v = TRUE
    /\ "data" \in DOMAIN res.f

\* ParseFailure that swallows the failure
ParseFailure_Undefined == Return(JUndefined)

ParseFailure == Throw(SDKError("Failed to parse response body as JSON or unexpected structure"))

\* HandleSuccessfulResponse that takes 204 alone as no content
HandleSuccessfulResponse_Only204(resp, expectedStatus) ==
    IF resp.status = 204
    THEN Return(JUndefined)
    ELSE LET responseBody == ResponseJson(resp)
         IN IF Rejected(responseBody) THEN ParseFailure
            ELSE IF isSuccessWrapper(responseBody) THEN Return(responseBody.f["data"])
            ELSE IF expectedStatus # NoExpectedStatus /\ resp.status = expectedStatus
            THEN Return(responseBody)
            ELSE IF ResponseOk(resp)
                    /\ (expectedStatus = NoExpectedStatus \/ resp.status = expectedStatus)
            THEN Return(responseBody)
            ELSE Throw(SDKError("Unexpected successful response structure or status mismatch"))

\* HandleSuccessfulResponse that returns every parsed body of a 2xx response
HandleSuccessfulResponse_IgnoresMismatch(resp, expectedStatus) ==
    IF resp.status = 204 \/ HeadersGet(resp.headers, "Content-Length") = "0"
    THEN Return(JUndefined)
    ELSE LET responseBody == ResponseJson(resp)
         IN IF Rejected(responseBody) THEN ParseFailure
            ELSE IF isSuccessWrapper(responseBody) THEN Return(responseBody.f["data"])
            ELSE Return(responseBody)

\* HandleSuccessfulResponse that returns the wrapper instead of its data field
HandleSuccessfulResponse_ReturnsWrapper(resp, expectedStatus) ==
    IF resp.status = 204 \/ HeadersGet(resp.headers, "Content-Length") = "0"
    THEN Return(JUndefined)
    ELSE LET responseBody == ResponseJson(resp)
         IN IF Rejected(responseBody) THEN ParseFailure
            ELSE IF isSuccessWrapper(responseBody) THEN Return(responseBody)
            ELSE IF expectedStatus # NoExpectedStatus /\ resp.status = expectedStatus
            THEN Return(responseBody)
            ELSE IF ResponseOk(resp)
                    /\ (expectedStatus = NoExpectedStatus \/ resp.status = expectedStatus)
            THEN Return(responseBody)
            ELSE Throw(SDKError("Unexpected successful response structure or status mismatch"))

\* HandleSuccessfulResponse that tests the declared status before the wrapper
HandleSuccessfulResponse_MismatchFirst(resp, expectedStatus) ==
    IF resp.status = 204 \/ HeadersGet(resp.headers, "Content-Length") = "0"
    THEN Return(JUndefined)
    ELSE LET responseBody == ResponseJson(resp)
         IN IF Rejected(responseBody) THEN ParseFailure
            ELSE IF expectedStatus # NoExpectedStatus /\ resp.status # expectedStatus
            THEN Throw(SDKError("Unexpected successful response structure or status mismatch"))
            ELSE IF isSuccessWrapper(responseBody) THEN Return(responseBody.f["data"])
            ELSE Return(responseBody)

HandleSuccessfulResponse(resp, expectedStatus) ==
    IF resp.status = 204 \/ HeadersGet(resp.headers, "Content-Length") = "0"
    THEN Return(JUndefined)
    ELSE LET responseBody == ResponseJson(resp)
         IN IF Rejected(responseBody) THEN ParseFailure
            ELSE IF isSuccessWrapper(responseBody) THEN Return(responseBody.f["data"])
            ELSE IF expectedStatus # NoExpectedStatus /\ resp.status = expectedStatus
            THEN Return(responseBody)
            ELSE IF ResponseOk(resp)
                    /\ (expectedStatus = NoExpectedStatus \/ resp.status = expectedStatus)
            THEN Return(responseBody)
            ELSE Throw(SDKError("Unexpected successful response structure or status mismatch"))

InterpretResponse(resp, expectedStatus) ==
    IF IsErrorResponse(resp, expectedStatus)
    THEN HandleErrorResponse(resp)
    ELSE HandleSuccessfulResponse(resp, expectedStatus)

\* the response as json() and text() find it: an abort of the signal handed to
\* fetch() errors the body stream that has not been read yet, and the read rejects
ReceivedResponse(resp, aborted) ==
    IF aborted THEN [resp EXCEPT !.body = UnreadableBody] ELSE resp

\* request() calls json() or text() on the response
ReadsBody(resp, expectedStatus) ==
    \/ IsErrorResponse(resp, expectedStatus)
    \/ ~(resp.status = 204 \/ HeadersGet(resp.headers, "Content-Length") = "0")

----------------------------------------------------------------------------
(* HttpClient.request: abort signals, timeout and the failure of fetch() *)

NoTimeout == 0

\* the arguments of getCombinedSignal in request(): options.signal,
\* controller.signal, timeoutSignal; each is absent (null or undefined), armed
\* or aborted
Sources == {"signal", "controller", "timeoutSignal"}

\* what getCombinedSignal returns: undefined, one of its arguments (kind
\* "same"), or the signal of a new AbortController with the arguments on which
\* onAbort is registered
NoCombined == [kind |-> "undefined", source |-> "", aborted |-> FALSE, listeners |-> {}]

\* getCombinedSignal that registers onAbort and never looks at s.aborted
getCombinedSignal_ListenersOnly(s) ==
    LET validSignals == {n \in DOMAIN s : s[n] # "absent"}
    IN IF validSignals = {} THEN NoCombined
       ELSE IF Cardinality(validSignals) = 1
       THEN [kind |-> "same", source |-> CHOOSE n \in validSignals : TRUE,
             aborted |-> FALSE, listeners |-> {}]
       ELSE [kind |-> "controller", source |-> "",
             aborted |-> FALSE,
             listeners |-> {n \in validSignals : s[n] # "aborted"}]

getCombinedSignal(s) ==
    LET validSignals == {n \in DOMAIN s : s[n] # "absent"}
    IN IF validSignals = {} THEN NoCombined
       ELSE IF Cardinality(validSignals) = 1
       THEN [kind |-> "same", source |-> CHOOSE n \in validSignals : TRUE,
             aborted |-> FALSE, listeners |-> {}]
       ELSE [kind |-> "controller", source |-> "",
             aborted |-> \E n \in validSignals : s[n] = "aborted",
             listeners |-> {n \in validSignals : s[n] # "aborted"}]

\* no call in progress; first is the source that aborted first, "" while none has
NoSignals ==
    [signal |-> "absent", controller |-> "absent", timeoutSignal |-> "absent",
     combined |-> NoCombined, first |-> ""]

\* ComposeSignals that creates no timeout signal
ComposeSignals_NoTimeout(signal, timeout) ==
    LET s == [signal |-> signal, controller |-> "armed", timeoutSignal |-> "absent"]
    IN [signal |-> s.signal, controller |-> s.controller, timeoutSignal |-> s.timeoutSignal,
        combined |-> getCombinedSignal(s),
        first |-> IF signal = "aborted" THEN "signal" ELSE ""]

\* the three signals of request() and their combination
ComposeSignals(signal, timeout) ==
    LET s == [signal |-> signal,
              controller |-> "armed",
              timeoutSignal |-> IF timeout # NoTimeout THEN "armed" ELSE "absent"]
    IN [signal |-> s.signal, controller |-> s.controller, timeoutSignal |-> s.timeoutSignal,
        combined |-> getCombinedSignal(s),
        first |-> IF signal = "aborted" THEN "signal" ELSE ""]

\* combinedSignal.aborted
Aborted(sig) ==
    IF sig.combined.kind = "same" THEN sig[sig.combined.source] = "aborted"
    ELSE sig.combined.aborted

\* SignalAbort in which every abort of a source toggles the controller's signal
SignalAbort_Toggles(sig, n) ==
    LET c == sig.combined
    IN [sig EXCEPT ![n] = "aborted",
                   !.first = IF sig.first = "" THEN n ELSE sig.first,
                   !.combined = IF c.kind = "controller"
                                THEN [c EXCEPT !.aborted = ~@, !.listeners = {}]
                                ELSE c]

\* the source n aborts: its abort event runs onAbort, which aborts the
\* controller (with no reason) and removes onAbort from every source
SignalAbort(sig, n) ==
    LET c == sig.combined
    IN [sig EXCEPT ![n] = "aborted",
                   !.first = IF sig.first = "" THEN n ELSE sig.first,
                   !.combined = IF n \in c.listeners
                                THEN [c EXCEPT !.aborted = TRUE, !.listeners = {}]
                                ELSE c]

\* values fetch() rejects with; dom is `error instanceof DOMException`
FetchError(name, dom, message) == [name |-> name, dom |-> dom, message |-> message]
AbortError == FetchError("AbortError", TRUE, "This operation was aborted")
TimeoutError == FetchError("TimeoutError", TRUE, "The operation was aborted due to timeout")
NoError == FetchError("", FALSE, "")

\* combinedSignal.reason: controller.abort() is called without a reason, so the
\* new controller's signal carries the default AbortError; a timeout signal
\* handed to fetch() itself carries its TimeoutError
Reason(sig) ==
    IF sig.combined.kind = "same" /\ sig.combined.source = "timeoutSignal"
    THEN TimeoutError
    ELSE AbortError

\* failures of the network
TransportErrors ==
    {FetchError("TypeError", FALSE, "fetch failed"), FetchError("TypeError", FALSE, "terminated")}

\* HandleFetchError that reports every abort as a timeout
HandleFetchError_AbortIsTimeout(error, timeoutAborted) ==
    IF error.name = "TimeoutError" \/ (error.dom /\ error.name = "AbortError")
    THEN Throw(NetworkError("Request timed out after", error))
    ELSE Throw(NetworkError("Network request failed", error))

\* HandleFetchError whose last branch raises a plain SDKError
HandleFetchError_PlainError(error, timeoutAborted) ==
    IF error.name = "TimeoutError"
       \/ (error.dom /\ error.name = "AbortError" /\ timeoutAborted)
    THEN Throw(NetworkError("Request timed out after", error))
    ELSE IF error.dom /\ error.name = "AbortError"
    THEN Throw(SDKError("Request aborted"))
    ELSE Throw(SDKError("Network request failed"))

\* the catch block around fetch(); timeoutAborted is timeoutSignal?.aborted
HandleFetchError(error, timeoutAborted) ==
    IF error.name = "TimeoutError"
       \/ (error.dom /\ error.name = "AbortError" /\ timeoutAborted)
    THEN Throw(NetworkError("Request timed out after", error))
    ELSE IF error.dom /\ error.name = "AbortError"
    THEN Throw(SDKError("Request aborted"))
    ELSE Throw(NetworkError("Network request failed", error))

\* LateOutcome that interprets the late response
LateOutcome_Interpreted(res, r, expectedStatus) == InterpretResponse(r, expectedStatus)

\* a response that reaches the client after the promise of fetch() was
\* rejected: request() has thrown from the catch block and nothing awaits it
LateOutcome(res, r, expectedStatus) == res

----------------------------------------------------------------------------
(* Schemas: z.string(), z.object(), ... with safeParse() and parse() *)

\* v[k] of a JS object, undefined for a key it does not have
Field(v, k) == IF k \in DOMAIN v.f THEN v.f[k] ELSE JUndefined

\* schema nodes; transform names the function given to .transform()
ZNode(type) == [type |-> type, optional |-> FALSE, nullable |-> FALSE, transform |-> "none"]
ZString == ZNode("string")
ZUuid == ZNode("uuid")
ZEnum(values) == ZNode("enum") @@ [values |-> values]
ZInt(min, max) == ZNode("int") @@ [min |-> min, max |-> max]
ZMin(min) == ZNode("min") @@ [min |-> min]
ZArray(item) == ZNode("array") @@ [item |-> item]
ZObject(shape) == ZNode("object") @@ [shape |-> shape]
Optional(s) == [s EXCEPT !.optional = TRUE]
Nullable(s) == [s EXCEPT !.nullable = TRUE]
Transform(s, fn) == [s EXCEPT !.transform = fn]
Key(k, s) == [k |-> k, s |-> s]


RECURSIVE Flatten(_)
Flatten(ss) == IF ss = <<>> THEN <<>> ELSE Head(ss) \o Flatten(Tail(ss))

\* the issues the schema finds in the value v, in the order of the shape
RECURSIVE SchemaIssues(_, _, _)
SchemaIssues(schema, v, path) ==
    LET one(code) == <<[code |-> code, path |-> path]>>
    IN IF v.t = "undefined" THEN (IF schema.optional THEN <<>> ELSE one("invalid_type"))
       ELSE IF v.t = "null" THEN (IF schema.nullable THEN <<>> ELSE one("invalid_type"))
       ELSE CASE schema.type = "string" ->
                    IF v.t # "string" THEN one("invalid_type")
                    ELSE IF "min" \in DOMAIN schema /\ Len(v.v) < schema.min
                    THEN one("too_small")
                    ELSE IF "max" \in DOMAIN schema /\ Len(v.v) > schema.max
                    THEN one("too_big")
                    ELSE <<>>
              [] schema.type = "uuid" ->
                    IF v.t # "string" THEN one("invalid_type")
                    ELSE IF v.v \in {Uuid1} THEN <<>> ELSE one("invalid_string")
              [] schema.type = "datetime" ->
                    IF v.t # "string" THEN one("invalid_type")
                    ELSE IF v.v \in {Iso1} THEN <<>> ELSE one("invalid_string")
              [] schema.type = "enum" ->
                    IF v.t # "string" THEN one("invalid_type")
                    ELSE IF v.v \in schema.values THEN <<>> ELSE one("invalid_enum_value")
              [] schema.type = "number" ->
                    IF v.t = "number" THEN <<>> ELSE one("invalid_type")
              [] schema.type = "int" ->
                    IF v.t # "number" THEN one("invalid_type")
                    ELSE IF v.v < schema.min THEN one("too_small")
                    ELSE IF v.v > schema.max THEN one("too_big")
                    ELSE <<>>
              [] schema.type = "min" ->
                    IF v.t # "number" THEN one("invalid_type")
                    ELSE IF v.v < schema.min THEN one("too_small")
                    ELSE <<>>
              [] schema.type = "record" ->
                    IF v.t = "object" THEN <<>> ELSE one("invalid_type")
              [] schema.type = "array" ->
                    IF v.t # "array" THEN one("invalid_type")
                    ELSE (IF "min" \in DOMAIN schema /\ Len(v.e) < schema.min
                          THEN one("too_small") ELSE <<>>)
                         \o Flatten([i \in 1..Len(v.e) |->
                            SchemaIssues(schema.item, v.e[i], path \o <<ToString(i - 1)>>)])
              [] schema.type = "object" ->
                    IF v.t # "object" THEN one("invalid_type")
                    ELSE Flatten([i \in 1..Len(schema.shape) |->
                            SchemaIssues(schema.shape[i].s, Field(v, schema.shape[i].k),
                                         path \o <<schema.shape[i].k>>)])

\* WalletSchema's transform: snake_case to camelCase, dates from strings
WalletTransform(data) ==
    JObj([id |-> Field(data, "id"),
          userId |-> Field(data, "user_id"),
          address |-> Field(data, "address"),
          blockchain |-> Field(data, "blockchain"),
          name |-> Field(data, "name"),
          status |-> Field(data, "status"),
          metadata |-> Field(data, "metadata"),
          createdAt |-> JDate(Field(data, "created_at").v),
          updatedAt |-> JDate(Field(data, "updated_at").v),
          organizationId |-> Field(data, "organization_id")])

\* WalletCreateRequestSchema's transform: camelCase to snake_case
WalletCreateRequestTransform(data) ==
    JObj([blockchain |-> Field(data, "blockchain"),
          name |-> Field(data, "name"),
          user_id |-> Field(data, "userId"),
          organization_id |-> Field(data, "organizationId"),
          metadata |-> Field(data, "metadata")])

\* the function a schema was given in .transform()
ApplyTransform(fn, data) ==
    CASE fn = "none" -> data
      [] fn = "Date" -> JDate(data.v)
      [] fn = "Wallet" -> WalletTransform(data)
      [] fn = "WalletCreateRequest" -> WalletCreateRequestTransform(data)
      [] fn = "ApiKeyResponse" ->
            LET DateOrNull(v) == IF ToBoolean(v) THEN JDate(v.v) ELSE JNull
            IN JObj([id |-> Field(data, "id"),
                  name |-> Field(data, "name"),
                  key |-> Field(data, "key"),
                  permissions |-> Field(data, "permissions"),
                  status |-> Field(data, "status"),
                  expiresAt |-> DateOrNull(Field(data, "expires_at")),
                  createdAt |-> JDate(Field(data, "created_at").v),
                  lastUsedAt |-> DateOrNull(Field(data, "last_used_at")),
                  organizationId |-> Field(data, "organization_id")])
      [] fn = "ApiKeyCreateRequest" ->
            JObj([name |-> Field(data, "name"),
                  permissions |-> Field(data, "permissions"),
                  expires_at |-> Field(data, "expiresAt"),
                  organization_id |-> Field(data, "organizationId")])
      [] fn = "ExecuteFunctionResponse" ->
            JObj([transactionHash |-> Field(data, "transaction_hash"),
                  status |-> Field(data, "status"),
                  error |-> Field(data, "error")])

\* the data of a successful parse: unknown keys stripped, transforms applied
RECURSIVE SchemaOutput(_, _)
SchemaOutput(schema, v) ==
    IF v.t \in {"undefined", "null"} THEN v
    ELSE LET data ==
                CASE schema.type = "array" ->
                        JArr([i \in 1..Len(v.e) |-> SchemaOutput(schema.item, v.e[i])])
                  [] schema.type = "object" ->
                        LET present == {i \in 1..Len(schema.shape) :
                                            Field(v, schema.shape[i].k).t # "undefined"}
                            at(k) == CHOOSE i \in present : schema.shape[i].k = k
                        IN JObj([k \in {schema.shape[i].k : i \in present} |->
                                    SchemaOutput(schema.shape[at(k)].s, v.f[k])])
                  [] OTHER -> v
         IN ApplyTransform(schema.transform, data)

\* schema.safeParse(v)
SafeParse(schema, v) ==
    LET issues == SchemaIssues(schema, v, <<>>)
    IN [success |-> issues = <<>>,
        issues |-> issues,
        data |-> IF issues = <<>> THEN SchemaOutput(schema, v) ELSE JUndefined]

\* schema.parse(v): the data, or a ZodError with the issues
SchemaParse(schema, v) ==
    LET r == SafeParse(schema, v)
    IN IF r.success THEN Return(r.data) ELSE Throw(ZodError(r.issues))

WalletSchema ==
    Transform(ZObject(<<Key("id", ZUuid), Key("user_id", ZUuid), Key("address", ZString),
                        Key("blockchain", ZString), Key("name", ZString),
                        Key("status", ZEnum({"active", "inactive", "frozen"})),
                        Key("metadata", Nullable(Optional(ZNode("record")))),
                        Key("created_at", ZString), Key("updated_at", ZString),
                        Key("organization_id", Nullable(Optional(ZUuid)))>>),
              "Wallet")

\* ApiApiKeyResponseSchema and its transform
ApiKeyResponseSchema ==
    Transform(ZObject(<<Key("id", ZUuid), Key("name", ZString), Key("key", Optional(ZString)),
                        Key("permissions", ZArray(ZString)),
                        Key("status", ZEnum({"active", "inactive", "revoked"})),
                        Key("expires_at", Optional(Nullable(ZString))),
                        Key("created_at", ZString),
                        Key("last_used_at", Optional(Nullable(ZString))),
                        Key("organization_id", Optional(Nullable(ZUuid)))>>),
              "ApiKeyResponse")

\* ApiKeyCreateRequestInputSchema and its transform
ApiKeyCreateRequestSchema ==
    Transform(ZObject(<<Key("name", ZString @@ [min |-> 3, max |-> 100]),
                        Key("permissions", ZArray(ZString) @@ [min |-> 1]),
                        Key("expiresAt", Optional(ZNode("datetime"))),
                        Key("organizationId", ZUuid)>>),
              "ApiKeyCreateRequest")

WalletCreateRequestSchema ==
    Transform(ZObject(<<Key("blockchain", ZString), Key("name", ZString),
                        Key("userId", Optional(ZUuid)), Key("organizationId", ZUuid),
                        Key("metadata", Optional(ZNode("record")))>>),
              "WalletCreateRequest")

\* also WalletTransactionListParamsSchema, which has the same shape
WalletListParamsSchema ==
    ZObject(<<Key("limit", Optional(ZInt(1, 100))), Key("offset", Optional(ZMin(0)))>>)

WalletListResponseSchema ==
    ZObject(<<Key("wallets", ZArray(WalletSchema)), Key("totalCount", ZNode("number"))>>)

ZDate == Transform(ZNode("datetime"), "Date")

TransactionResponseSchema ==
    ZObject(<<Key("id", ZUuid), Key("walletId", ZUuid), Key("txHash", Nullable(Optional(ZString))),
              Key("blockchain", ZString),
              Key("status", ZEnum({"pending", "awaiting_approval", "confirmed", "failed"})),
              Key("type", Optional(Nullable(ZEnum({"transfer", "contract_deploy",
                            "contract_call", "token_transfer", "token_approval", "swap"})))),
              Key("amount", ZString),
              Key("fee", Nullable(Optional(ZString))), Key("recipient", ZString),
              Key("data", Nullable(Optional(ZString))),
              Key("metadata", Nullable(Optional(ZNode("record")))),
              Key("createdAt", ZDate), Key("updatedAt", ZDate)>>)

WalletTransactionListResponseSchema ==
    ZObject(<<Key("transactions", ZArray(TransactionResponseSchema)),
              Key("totalCount", ZNode("number"))>>)

TransactionApprovalResponseSchema ==
    ZObject(<<Key("id", ZUuid), Key("transactionId", ZUuid),
              Key("status", ZEnum({"pending", "approved", "rejected", "expired"})),
              Key("reason", Optional(Nullable(ZEnum({"high_value", "daily_limit_exceeded",
                            "suspicious_activity", "new_recipient"})))),
              Key("requestedBy", ZUuid), Key("approvedBy", Nullable(Optional(ZUuid))),
              Key("requestedAt", ZDate), Key("respondedAt", Nullable(Optional(ZDate))),
              Key("expiresAt", ZDate), Key("notes", Nullable(Optional(ZString))),
              Key("createdAt", ZDate), Key("updatedAt", ZDate)>>)

----------------------------------------------------------------------------
(* Resource methods: WalletsAPI, TransactionApprovalsAPI, ApiKeysAPI, ContractsAPI *)

ExecuteByName == "ContractsAPI.executeContractFunctionByName"

Methods ==
    {"WalletsAPI.create", "WalletsAPI.list", "WalletsAPI.getById",
     "WalletsAPI.listTransactions", "WalletsAPI.delete",
     "TransactionApprovalsAPI.listByTransaction", "ApiKeysAPI.create", ExecuteByName}

\* the arguments of a method: the id (wallet, transaction or contract address)
\* and the data or params; for ExecuteByName data holds the other arguments
Args(id, data) == [id |-> id, data |-> data]

\* the input passed validation; data is what the method hands to request()
Valid(data) == [kind |-> "valid", data |-> data]

\* executeContractFunctionByName that deletes walletAddress from the caller's
\* parameters instead of from a copy
executeContractFunctionByName_DeletesInPlace(contractAddress, network, functionName, verificationHeaders, parameters) ==
    LET hasWalletId == "X-Wallet-ID" \in ObjKeys(verificationHeaders)
        hasWalletAddress == "X-Wallet-Address" \in ObjKeys(verificationHeaders)
        absent == parameters.t \in {"undefined", "null"}
        inParameters == IF absent THEN JUndefined ELSE Field(parameters, "walletAddress")
        walletAddress ==
            IF ~ToBoolean(inParameters) /\ hasWalletAddress
            THEN JStr(ObjGet(verificationHeaders, "X-Wallet-Address"))
            ELSE inParameters
        paramsCopy ==
            IF absent THEN JObj(<<>>)
            ELSE JObj([k \in DOMAIN parameters.f \ {"walletAddress"} |-> parameters.f[k]])
        failed(message) ==
            [outcome |-> Throw(ValidationError(message, JUndefined)), parameters |-> parameters]
    IN IF contractAddress = "" THEN failed("Contract Address is required")
       ELSE IF network = "" THEN failed("Network is required")
       ELSE IF functionName = "" THEN failed("Function Name is required")
       ELSE IF \/ ~hasWalletId /\ ~hasWalletAddress
               \/ hasWalletId /\ ~Truthy(ObjGet(verificationHeaders, "X-Wallet-ID"))
               \/ hasWalletAddress
                  /\ ~Truthy(ObjGet(verificationHeaders, "X-Wallet-Address"))
       THEN failed("A valid X-Wallet-ID or X-Wallet-Address header is required for verification")
       ELSE IF ~ToBoolean(walletAddress)
       THEN failed("WalletAddress is required. Provide it in parameters.walletAddress or use X-Wallet-Address header")
       ELSE [outcome |-> Valid(JObj([network |-> JStr(network),
                                     parameters |-> paramsCopy,
                                     wallet_address |-> walletAddress]))
                         @@ [headers |-> verificationHeaders],
             parameters |-> IF absent THEN parameters ELSE paramsCopy]

\* the statements of executeContractFunctionByName before its call of
\* request(): the outcome (an error, or the body and headers of the request)
\* and the caller's parameters object as the method leaves it
executeContractFunctionByName(contractAddress, network, functionName, verificationHeaders, parameters) ==
    LET hasWalletId == "X-Wallet-ID" \in ObjKeys(verificationHeaders)
        hasWalletAddress == "X-Wallet-Address" \in ObjKeys(verificationHeaders)
        absent == parameters.t \in {"undefined", "null"}
        inParameters == IF absent THEN JUndefined ELSE Field(parameters, "walletAddress")
        walletAddress ==
            IF ~ToBoolean(inParameters) /\ hasWalletAddress
            THEN JStr(ObjGet(verificationHeaders, "X-Wallet-Address"))
            ELSE inParameters
        paramsCopy ==
            IF absent THEN JObj(<<>>)
            ELSE JObj([k \in DOMAIN parameters.f \ {"walletAddress"} |-> parameters.f[k]])
        failed(message) ==
            [outcome |-> Throw(ValidationError(message, JUndefined)), parameters |-> parameters]
    IN IF contractAddress = "" THEN failed("Contract Address is required")
       ELSE IF network = "" THEN failed("Network is required")
       ELSE IF functionName = "" THEN failed("Function Name is required")
       ELSE IF \/ ~hasWalletId /\ ~hasWalletAddress
               \/ hasWalletId /\ ~Truthy(ObjGet(verificationHeaders, "X-Wallet-ID"))
               \/ hasWalletAddress
                  /\ ~Truthy(ObjGet(verificationHeaders, "X-Wallet-Address"))
       THEN failed("A valid X-Wallet-ID or X-Wallet-Address header is required for verification")
       ELSE IF ~ToBoolean(walletAddress)
       THEN failed("WalletAddress is required. Provide it in parameters.walletAddress or use X-Wallet-Address header")
       ELSE [outcome |-> Valid(JObj([network |-> JStr(network),
                                     parameters |-> paramsCopy,
                                     wallet_address |-> walletAddress]))
                         @@ [headers |-> verificationHeaders],
             parameters |-> parameters]


\* `params ? Schema.parse(params) : {}`
ParseParams(schema, params) ==
    IF params.t \in {"undefined", "null"} THEN Valid(JObj(<<>>))
    ELSE LET r == SchemaParse(schema, params)
         IN IF r.kind = "throw" THEN r ELSE Valid(r.value)

\* ValidateInput that lets an empty id through
ValidateInput_NoIdCheck(m, args) ==
    CASE m = "WalletsAPI.create" ->
            LET validationResult == SafeParse(WalletCreateRequestSchema, args.data)
            IN IF ~validationResult.success
               THEN Throw(ValidationError("Invalid wallet creation data",
                                          JArr(validationResult.issues)))
               ELSE Valid(validationResult.data)
      [] m = "WalletsAPI.list" -> ParseParams(WalletListParamsSchema, args.data)
      [] m \in {"WalletsAPI.getById", "WalletsAPI.delete"} -> Valid(JUndefined)
      [] m = "WalletsAPI.listTransactions" -> ParseParams(WalletListParamsSchema, args.data)
      [] m = "TransactionApprovalsAPI.listByTransaction" -> Valid(JUndefined)
      [] m = "ApiKeysAPI.create" ->
            LET validationResult == SafeParse(ApiKeyCreateRequestSchema, args.data)
            IN IF ~validationResult.success
               THEN Throw(ValidationError("Invalid API key creation data",
                                          JArr(validationResult.issues)))
               ELSE Valid(validationResult.data)
      [] m = ExecuteByName ->
            executeContractFunctionByName(args.id, args.data.network, args.data.functionName,
                                          args.data.verificationHeaders,
                                          args.data.parameters).outcome

\* the statements of the method before its call of request()
ValidateInput(m, args) ==
    CASE m = "WalletsAPI.create" ->
            LET validationResult == SafeParse(WalletCreateRequestSchema, args.data)
            IN IF ~validationResult.success
               THEN Throw(ValidationError("Invalid wallet creation data",
                                          JArr(validationResult.issues)))
               ELSE Valid(validationResult.data)
      [] m = "WalletsAPI.list" -> ParseParams(WalletListParamsSchema, args.data)
      [] m \in {"WalletsAPI.getById", "WalletsAPI.delete"} ->
            IF args.id = "" THEN Throw(ValidationError("Wallet ID is required", JUndefined))
            ELSE Valid(JUndefined)
      [] m = "WalletsAPI.listTransactions" ->
            IF args.id = "" THEN Throw(ValidationError("Wallet ID is required", JUndefined))
            ELSE ParseParams(WalletListParamsSchema, args.data)
      [] m = "TransactionApprovalsAPI.listByTransaction" ->
            IF args.id = ""
            THEN Throw(ValidationError("Transaction ID is required", JUndefined))
            ELSE Valid(JUndefined)
      [] m = "ApiKeysAPI.create" ->
            LET validationResult == SafeParse(ApiKeyCreateRequestSchema, args.data)
            IN IF ~validationResult.success
               THEN Throw(ValidationError("Invalid API key creation data",
                                          JArr(validationResult.issues)))
               ELSE Valid(validationResult.data)
      [] m = ExecuteByName ->
            executeContractFunctionByName(args.id, args.data.network, args.data.functionName,
                                          args.data.verificationHeaders,
                                          args.data.parameters).outcome

\* the methods that give request() a body
PostMethods == {"WalletsAPI.create", "ApiKeysAPI.create", ExecuteByName}

\* the methods that parse what request() returned
ParsingMethods == Methods \ {"WalletsAPI.delete"}

\* the schema a method parses the returned value with
OutputSchema(m) ==
    CASE m \in {"WalletsAPI.create", "WalletsAPI.getById"} -> WalletSchema
      [] m = "WalletsAPI.list" -> WalletListResponseSchema
      [] m = "WalletsAPI.listTransactions" -> WalletTransactionListResponseSchema
      [] m = "TransactionApprovalsAPI.listByTransaction" ->
            ZArray(TransactionApprovalResponseSchema)
      [] m = "ApiKeysAPI.create" -> ApiKeyResponseSchema
      [] m = ExecuteByName ->
            Transform(ZObject(<<Key("transaction_hash", Optional(ZString)),
                                Key("status", Optional(ZString)),
                                Key("error", Optional(ZString))>>),
                      "ExecuteFunctionResponse")

\* the statements of the method after request(): an error of request() goes to
\* the caller as it is, a returned value through Schema.parse()
\* ApiKeysAPI.create also requires the secret of the key in the parsed value
ParseOutput(m, res) ==
    IF res.kind = "throw" THEN res
    ELSE IF m \in ParsingMethods
    THEN LET parsedResponse == SchemaParse(OutputSchema(m), res.value)
         IN IF /\ m = "ApiKeysAPI.create"
               /\ parsedResponse.kind = "return"
               /\ ~ToBoolean(Field(parsedResponse.value, "key"))
            THEN Throw(ValidationError(
                    "API key secret was missing from the creation response.", JUndefined))
            ELSE parsedResponse
    ELSE Return(JUndefined)

----------------------------------------------------------------------------
(* Inputs *)

HeaderKeys ==
    {"X-API-Key", "Authorization", "authorization", "X-Organization-ID", "x-organization-id",
     "X-Wallet-ID"}

\* configs and calls that exercise the header assembly
HeaderConfigs ==
    [apiKey : {Undefined, "", "key-1"},
     authToken : {Undefined, "tok-1"},
     organizationId : {Undefined, "org-1"},
     defaultHeaders : ObjectsUpTo(HeaderKeys, {"default"}, MaxDefaultHeaders),
     timeout : {NoTimeout},
     baseURL : {<<"https://api.example.com">>}]

HeaderOptions ==
    [headers : ObjectsUpTo(HeaderKeys, {"call"}, MaxCallHeaders),
     expectedStatus : {NoExpectedStatus},
     signal : {"absent"},
     path : {<<"/", "wallets">>}, queryParams : {<<>>}, body : {JUndefined}]

Statuses == {200, 201, 204, 304, 401, 403, 404, 500}

ExpectedStatuses == {NoExpectedStatus, 201, 304, 401}

ContentTypes == {"application/json; charset=utf-8", "text/plain", "application/problem+json"}

ResponseHeaders ==
    {NewHeaders(ct \o cl) :
        ct \in {<<>>} \cup {<<Entry("Content-Type", v)>> : v \in ContentTypes},
        cl \in {<<>>, <<Entry("Content-Length", "0")>>, <<Entry("Content-Length", "17")>>}}

Bodies ==
    {Body(t) : t \in JsonTexts(MaxWrapDepth) \cup {TxtHtml, TxtEmpty}} \cup {UnreadableBody}

Responses == [status : Statuses, headers : ResponseHeaders, body : Bodies]

HeaderResponses ==
    {[status |-> 200, headers |-> NewHeaders(<<Entry("Content-Type", "text/plain")>>),
      body |-> Body(TxtId)],
     [status |-> 500, headers |-> EmptyHeaders, body |-> Body(TxtHtml)]}

\* configs and calls that exercise the interpretation of the response
ResponseConfigs ==
    [apiKey : {Undefined, "key-1"},
     authToken : {"tok-1"},
     organizationId : {"org-1"},
     defaultHeaders : {<<>>},
     timeout : {NoTimeout},
     baseURL : {<<"https://api.example.com">>}]

ResponseOptions ==
    [headers : {<<>>}, expectedStatus : ExpectedStatuses, signal : {"absent"},
     path : {<<"/", "wallets">>}, queryParams : {<<>>}, body : {JUndefined}]

\* configs, calls and responses that exercise cancellation and timeout
SignalConfigs ==
    [apiKey : {"key-1"},
     authToken : {Undefined},
     organizationId : {"org-1"},
     defaultHeaders : {<<>>},
     timeout : {NoTimeout, 5000},
     baseURL : {<<"https://api.example.com">>}]

SignalOptions ==
    [headers : {<<>>}, expectedStatus : {NoExpectedStatus, 404},
     signal : {"absent", "armed", "aborted"},
     path : {<<"/", "wallets">>}, queryParams : {<<>>}, body : {JUndefined}]

SignalResponses ==
    [status : {200, 204, 404},
     headers : {NewHeaders(<<Entry("Content-Type", "application/json; charset=utf-8")>>),
                NewHeaders(<<Entry("Content-Length", "0")>>)},
     body : {Body(TxtId), Body(WrapText(TxtArray)), Body(TxtHtml)}]

\* arguments the method's validation accepts
ValidArgs(m) ==
    CASE m = "WalletsAPI.create" ->
            {Args("", JObj([blockchain |-> JStr("ethereum"), name |-> JStr("main"),
                            organizationId |-> JStr(Uuid1)])),
             Args("", JObj([blockchain |-> JStr("ethereum"), name |-> JStr("main"),
                            userId |-> JStr(Uuid1), organizationId |-> JStr(Uuid1),
                            metadata |-> JObj([purpose |-> JStr("treasury")])]))}
      [] m = "ApiKeysAPI.create" ->
            {Args("", JObj([name |-> JStr("ci-key"),
                            permissions |-> JArr(<<JStr("wallets:read")>>),
                            organizationId |-> JStr(Uuid1)])),
             Args("", JObj([name |-> JStr("ci-key"),
                            permissions |-> JArr(<<JStr("wallets:read")>>),
                            expiresAt |-> JStr(Iso1), organizationId |-> JStr(Uuid1)]))}
      [] m = ExecuteByName ->
            {Args("0xc0ffee", [network |-> "sepolia", functionName |-> "transfer",
                               verificationHeaders |-> h, parameters |-> p]) :
                h \in {<<Entry("X-Wallet-Address", "0xabc")>>,
                       <<Entry("X-Wallet-ID", "w-1")>>,
                       <<Entry("X-Wallet-ID", "w-1"), Entry("X-Wallet-Address", "0xabc")>>},
                p \in {JObj([walletAddress |-> JStr("0xdef"), amount |-> JNum(5)]),
                       JObj([walletAddress |-> JStr("0xdef")])}}
            \cup {Args("0xc0ffee", [network |-> "sepolia", functionName |-> "transfer",
                                    verificationHeaders |-> <<Entry("X-Wallet-Address", "0xabc")>>,
                                    parameters |-> p]) :
                    p \in {JUndefined, JObj(<<>>), JObj([amount |-> JNum(5)]),
                           JObj([walletAddress |-> JStr(""), amount |-> JNum(5)])}}
      [] m = "WalletsAPI.list" -> {Args("", JUndefined), Args("", JObj([limit |-> JNum(10)]))}
      [] m = "WalletsAPI.listTransactions" ->
            {Args(Uuid1, JUndefined),
             Args(Uuid1, JObj([limit |-> JNum(100), offset |-> JNum(0)]))}
      [] OTHER -> {Args(Uuid1, JUndefined)}

\* arguments with a missing id or with data that break the schema: a wallet
\* without name, a wallet with two wrong fields, limits and offsets out of range
InvalidArgs(m) ==
    CASE m = "WalletsAPI.create" ->
            {Args("", JObj([blockchain |-> JStr("ethereum"), organizationId |-> JStr(Uuid1)])),
             Args("", JObj([blockchain |-> JStr("ethereum"), name |-> JNum(7),
                            organizationId |-> JStr("org-1")]))}
      [] m = "WalletsAPI.list" ->
            {Args("", JObj([limit |-> JNum(0)])), Args("", JObj([limit |-> JNum(101), offset |-> JNum(-1)]))}
      [] m = "WalletsAPI.listTransactions" ->
            {Args("", JUndefined), Args("", JObj([limit |-> JNum(0)])), Args(Uuid1, JObj([limit |-> JNum(0)]))}
      [] m = "ApiKeysAPI.create" ->
            {Args("", JObj([name |-> JStr("ci"), permissions |-> JArr(<<>>),
                            organizationId |-> JStr(Uuid1)])),
             Args("", JObj([name |-> JStr("ci-key"),
                            permissions |-> JArr(<<JStr("wallets:read")>>),
                            expiresAt |-> JDate(Iso1), organizationId |-> JStr(Uuid1)]))}
      [] m = ExecuteByName ->
            {Args(a, [network |-> n, functionName |-> fn,
                      verificationHeaders |-> <<Entry("X-Wallet-ID", "w-1")>>,
                      parameters |-> JObj([walletAddress |-> JStr("0xdef")])]) :
                <<a, n, fn>> \in ({"", "0xc0ffee"} \X {"", "sepolia"} \X {"", "transfer"})
                                  \ {<<"0xc0ffee", "sepolia", "transfer">>}}
            \cup {Args("0xc0ffee", [network |-> "sepolia", functionName |-> "transfer",
                                    verificationHeaders |-> h, parameters |-> p]) :
                    h \in {<<Entry("X-Wallet-ID", "w-1")>>, <<Entry("X-Wallet-ID", "")>>, <<>>,
                           <<Entry("X-Wallet-ID", "w-1"), Entry("X-Wallet-Address", "")>>},
                    p \in {JUndefined, JObj([amount |-> JNum(5)]),
                           JObj([walletAddress |-> JStr(""), amount |-> JNum(5)])}}
            \cup {Args("0xc0ffee", [network |-> "sepolia", functionName |-> "transfer",
                                    verificationHeaders |-> h,
                                    parameters |-> JObj([walletAddress |-> JStr("0xdef")])]) :
                    h \in {<<Entry("X-Wallet-ID", "")>>, <<>>,
                           <<Entry("X-Wallet-ID", "w-1"), Entry("X-Wallet-Address", "")>>}}
      [] OTHER -> {Args("", JUndefined)}

ResourceResponses ==
    [status : {200},
     headers : {NewHeaders(<<Entry("Content-Type", "application/json; charset=utf-8")>>)},
     body : {Body(t) : t \in DOMAIN ResourceJson \cup {TxtId}}]
    \cup {[status |-> 204, headers |-> EmptyHeaders, body |-> Body(TxtEmpty)],
          [status |-> 404,
           headers |-> NewHeaders(<<Entry("Content-Type", "application/json; charset=utf-8")>>),
           body |-> Body(TxtError)]}

\* configs and calls that exercise the address, the query and the body: base
\* addresses and paths with 0..MaxSlashes slashes at the joint, query values of
\* every type, bodies of every type (among them an object that refers to
\* itself, and FormData, URLSearchParams and Blob payloads)
RequestConfigs ==
    [apiKey : {"key-1"},
     authToken : {Undefined},
     organizationId : {"org-1"},
     defaultHeaders : {<<>>, <<Entry("Content-Type", "text/xml")>>},
     timeout : {NoTimeout},
     baseURL : {<<"https://api.example.com">> \o v \o [i \in 1..n |-> "/"] :
                    v \in {<<>>, <<"/", "v1">>}, n \in 0..MaxSlashes}]

RequestOptions ==
    [headers : {<<>>, <<Entry("Content-Type", "text/plain")>>},
     expectedStatus : {NoExpectedStatus},
     signal : {"absent"},
     path : {[i \in 1..n |-> "/"] \o <<"wallets">> : n \in 0..MaxSlashes},
     queryParams :
        {<<>>,
         <<Entry("a", JUndefined), Entry("b", JNull), Entry("c", JDate(Iso1)),
           Entry("d", JStr("x"))>>,
         <<Entry("limit", JNum(10)), Entry("active", JBool(FALSE)), Entry("q", JStr(""))>>,
         <<Entry("d", JStr("x")), Entry("a", JNull), Entry("limit", JNum(0))>>},
     body : {JUndefined, JNull, JStr(""), JStr("raw"), JNum(0), JNum(7), JBool(FALSE),
             JBool(TRUE), JId, JArr(<<JId>>), [t |-> "object", cyclic |-> TRUE],
             [t |-> "FormData"], [t |-> "URLSearchParams"], [t |-> "Blob"]}]

----------------------------------------------------------------------------
(* State machine *)

NoOptions ==
    [headers |-> <<>>, expectedStatus |-> NoExpectedStatus, signal |-> "absent",
     path |-> <<"/">>, queryParams |-> <<>>, body |-> JUndefined]
NoRequest ==
    [url |-> [href |-> <<>>, searchParams |-> <<>>], headers |-> EmptyHeaders, body |-> JNull]
NoResponse == [status |-> 0, headers |-> EmptyHeaders, body |-> UnreadableBody]
NoTransport == [fetches |-> 0, error |-> NoError, late |-> NoResponse]
NoApi == [method |-> "", input |-> JUndefined, after |-> JUndefined, phase |-> "none",
          response |-> Pending, outcome |-> Pending]

\* the variables of a request() call before it starts
NoCall ==
    [pc |-> "idle", options |-> NoOptions, outgoing |-> NoRequest, response |-> NoResponse,
     result |-> Pending, signals |-> NoSignals, transport |-> NoTransport, bodyUsed |-> FALSE]

\* new HttpClient(c) for some c of Configs; no call in progress
InitWith(Configs) ==
    /\ \E c \in Configs : arg = c /\ config = HttpClientConstructor(c)
    /\ second = NoCall
    /\ pc = "idle"
    /\ options = NoOptions
    /\ outgoing = NoRequest
    /\ response = NoResponse
    /\ result = Pending
    /\ prev = NoExpectedStatus
    /\ signals = NoSignals
    /\ transport = NoTransport
    /\ bodyUsed = FALSE
    /\ api = NoApi

\* request(o.path, o) up to the call of fetch(). A body that cannot be
\* serialized ends the call before the signals are composed and before fetch().
\* fetch() called with a signal that is already aborted rejects at once with
\* the signal's reason, and the catch block runs before any timer or network
\* event
RequestWith(o) ==
    /\ pc = "idle"
    /\ options' = o
    /\ LET prepared == PrepareBody(PrepareHeaders(config, o.headers), o.body)
           sig == ComposeSignals(o.signal, config.timeout)
       IN IF prepared.kind = "throw"
          THEN /\ pc' = "done"
               /\ result' = prepared
               /\ UNCHANGED <<outgoing, signals, transport>>
          ELSE /\ outgoing' = [url |-> RequestURL(config, o.path, o.queryParams),
                               headers |-> prepared.headers,
                               body |-> prepared.requestBody]
               /\ signals' = sig
               /\ IF Aborted(sig)
                  THEN /\ pc' = "done"
                       /\ result' = HandleFetchError(Reason(sig),
                                                     sig.timeoutSignal = "aborted")
                       /\ transport' = [transport EXCEPT !.fetches = @ + 1,
                                                         !.error = Reason(sig)]
                  ELSE /\ pc' = "fetching"
                       /\ result' = Pending
                       /\ transport' = [transport EXCEPT !.fetches = @ + 1]
    /\ UNCHANGED <<arg, second, config, response, prev, bodyUsed>>

Request(Options) ==
    /\ \E o \in Options : RequestWith(o)
    /\ UNCHANGED api

\* fetch() resolves with a response
FetchResolves(Resps) ==
    /\ pc = "fetching"
    /\ \E r \in Resps : response' = r
    /\ pc' = "responded"
    /\ UNCHANGED <<arg, second, config, options, outgoing, result, prev, signals, transport, bodyUsed, api>>

\* fetch() rejects for a reason that is neither timeout nor abort
FetchRejects ==
    /\ pc = "fetching"
    /\ \E e \in TransportErrors :
        /\ result' = HandleFetchError(e, signals.timeoutSignal = "aborted")
        /\ transport' = [transport EXCEPT !.error = e]
    /\ pc' = "done"
    /\ UNCHANGED <<arg, second, config, options, outgoing, response, prev, signals, bodyUsed, api>>

\* the source n of the combined signal aborts while the call is in progress or
\* settled. With fetch() pending, the abort of the combined signal rejects its
\* promise with the signal's reason, and the catch block runs as a microtask,
\* before any timer or network event. With the response received and its body
\* not read yet, the abort errors the body (see Interpret).
Abort(n) ==
    /\ pc # "idle"
    /\ signals[n] = "armed"
    /\ LET sig == SignalAbort(signals, n)
       IN /\ signals' = sig
          /\ IF pc = "fetching" /\ Aborted(sig)
             THEN /\ pc' = "done"
                  /\ result' = HandleFetchError(Reason(sig), sig.timeoutSignal = "aborted")
                  /\ transport' = [transport EXCEPT !.error = Reason(sig)]
             ELSE UNCHANGED <<pc, result, transport>>
    /\ UNCHANGED <<arg, second, config, options, outgoing, response, prev, bodyUsed, api>>

\* the caller aborts options.signal
CallerAborts == Abort("signal")

\* the timer of AbortSignal.timeout(config.timeout) expires
TimeoutFires == Abort("timeoutSignal")

\* the rest of request() after fetch() resolved: the error gate and the read of
\* the body, which completes here
Interpret ==
    /\ pc = "responded"
    /\ result' = InterpretResponse(ReceivedResponse(response, Aborted(signals)),
                                   options.expectedStatus)
    /\ bodyUsed' = ReadsBody(response, options.expectedStatus)
    /\ pc' = "done"
    /\ UNCHANGED <<arg, second, config, options, outgoing, response, prev, signals, transport, api>>

\* the network delivers a response to a fetch() whose promise was rejected
LateResponse(Resps) ==
    /\ pc = "done"
    /\ transport.fetches > 0
    /\ response = NoResponse
    /\ options.signal # "aborted"
    /\ transport.late = NoResponse
    /\ \E r \in Resps :
        /\ transport' = [transport EXCEPT !.late = r]
        /\ result' = LateOutcome(result, r, options.expectedStatus)
    /\ UNCHANGED <<arg, second, config, pc, options, outgoing, response, prev, signals, bodyUsed, api>>

\* the event loop runs the other request() call: its variables are local to
\* the call, this.config is the one object both calls read
Switch ==
    /\ second' = [pc |-> pc, options |-> options, outgoing |-> outgoing,
                  response |-> response, result |-> result, signals |-> signals,
                  transport |-> transport, bodyUsed |-> bodyUsed]
    /\ pc' = second.pc
    /\ options' = second.options
    /\ outgoing' = second.outgoing
    /\ response' = second.response
    /\ result' = second.result
    /\ signals' = second.signals
    /\ transport' = second.transport
    /\ bodyUsed' = second.bodyUsed
    /\ UNCHANGED <<config, prev, api, arg>>

\* the caller writes to the object it passed to the constructor: a top-level
\* field, or a header of its defaultHeaders
MutateArgument ==
    /\ \E w \in {[field |-> "apiKey", k |-> "", v |-> "key-2"],
                  [field |-> "organizationId", k |-> "", v |-> Undefined],
                  [field |-> "defaultHeaders", k |-> "X-Wallet-ID", v |-> "w-2"]} :
        /\ arg' = IF w.field = "defaultHeaders"
                  THEN [arg EXCEPT !.defaultHeaders = ObjectSpread(@, <<Entry(w.k, w.v)>>)]
                  ELSE [arg EXCEPT ![w.field] = w.v]
        /\ config' = AfterWrite(config, w.field, w.k, w.v)
    /\ UNCHANGED <<pc, options, outgoing, response, result, prev, signals, transport,
                   bodyUsed, api, second>>

\* the caller has the outcome; the client is ready for its next call
SettleClient ==
    /\ pc = "done"
    /\ pc' = "idle"
    /\ prev' = options.expectedStatus
    /\ options' = NoOptions
    /\ outgoing' = NoRequest
    /\ response' = NoResponse
    /\ result' = Pending
    /\ signals' = NoSignals
    /\ transport' = NoTransport
    /\ bodyUsed' = FALSE
    /\ UNCHANGED <<arg, second, config>>

Settle ==
    /\ SettleClient
    /\ UNCHANGED api

NextHeaders ==
    \/ Request(HeaderOptions)
    \/ FetchResolves(HeaderResponses)
    \/ FetchRejects
    \/ Interpret
    \/ Settle

SpecHeaders == InitWith(HeaderConfigs) /\ [][NextHeaders]_vars

NextResponse ==
    \/ Request(ResponseOptions)
    \/ FetchResolves(Responses)
    \/ FetchRejects
    \/ Interpret
    \/ Settle

SpecResponse == InitWith(ResponseConfigs) /\ [][NextResponse]_vars

NextRequest ==
    \/ Request(RequestOptions)
    \/ FetchResolves(HeaderResponses)
    \/ FetchRejects
    \/ Interpret
    \/ Settle

SpecRequest == InitWith(RequestConfigs) /\ [][NextRequest]_vars

\* a resource method is called: its validation, and for a valid input its
\* call of request(); input is the arguments as the caller passed them, after
\* the same objects when the method has run its statements before request()
ApiCall(Ms) ==
    /\ api.phase = "none"
    /\ pc = "idle"
    /\ \E m \in Ms : \E args \in ValidArgs(m) \cup InvalidArgs(m) :
        LET v == ValidateInput(m, args)
            after ==
                IF m = ExecuteByName
                THEN [args EXCEPT !.data.parameters =
                        executeContractFunctionByName(args.id, args.data.network,
                            args.data.functionName, args.data.verificationHeaders,
                            @).parameters]
                ELSE args
        IN IF v.kind = "throw"
           THEN /\ api' = [method |-> m, input |-> args, after |-> after,
                           phase |-> "returned", response |-> Pending, outcome |-> v]
                /\ UNCHANGED <<arg, second, config, pc, options, outgoing, response, result, prev,
                               signals, transport, bodyUsed>>
           ELSE /\ api' = [method |-> m, input |-> args, after |-> after,
                           phase |-> "awaiting", response |-> Pending, outcome |-> Pending]
                /\ RequestWith([NoOptions EXCEPT
                        !.body = IF m \in PostMethods THEN v.data ELSE JUndefined,
                        !.headers = IF "headers" \in DOMAIN v THEN v.headers ELSE <<>>])

\* request() has settled: the method validates what it returned
ApiReturn ==
    /\ api.phase = "awaiting"
    /\ pc = "done"
    /\ api' = [api EXCEPT !.phase = "returned",
                          !.response = result,
                          !.outcome = ParseOutput(api.method, result)]
    /\ UNCHANGED <<arg, second, config, pc, options, outgoing, response, result, prev,
                   signals, transport, bodyUsed>>

\* the caller of the method has the outcome
ApiDone ==
    /\ api.phase = "returned"
    /\ api' = NoApi
    /\ \/ SettleClient
       \/ /\ pc = "idle"
          /\ UNCHANGED <<arg, second, config, pc, options, outgoing, response, result, prev,
                         signals, transport, bodyUsed>>

NextResource ==
    \/ ApiCall(Methods)
    \/ FetchResolves(ResourceResponses)
    \/ FetchRejects
    \/ Interpret
    \/ ApiReturn
    \/ ApiDone

SpecResource == InitWith(SignalConfigs) /\ [][NextResource]_vars

NextSignals ==
    \/ Request(SignalOptions)
    \/ FetchResolves(SignalResponses)
    \/ FetchRejects
    \/ CallerAborts
    \/ TimeoutFires
    \/ Interpret
    \/ LateResponse(SignalResponses)
    \/ Settle

SpecSignals == InitWith(SignalConfigs) /\ [][NextSignals]_vars

\* two calls in progress on one client (calls that differ in their headers,
\* declared status, query and body), and a caller that writes to the object it
\* constructed the client from
NextConcurrent ==
    \/ Request(
        {[NoOptions EXCEPT !.path = <<"/", "wallets">>],
         [NoOptions EXCEPT !.path = <<"/", "wallets">>,
                           !.headers = <<Entry("X-Wallet-ID", "call")>>,
                           !.queryParams = <<Entry("limit", JNum(10))>>],
         [NoOptions EXCEPT !.path = <<"approvals">>, !.expectedStatus = 404, !.body = JId]})
    \/ FetchResolves(HeaderResponses)
    \/ FetchRejects
    \/ Interpret
    \/ Settle
    \/ Switch
    \/ MutateArgument

SpecConcurrent == InitWith(ResponseConfigs) /\ [][NextConcurrent]_vars

\* the timer of AbortSignal.timeout() expires in the end, and the read of a
\* response that has arrived ends (with the body, or with the abort's error)
SpecSignalsFair == SpecSignals /\ WF_vars(TimeoutFires) /\ WF_vars(Interpret)

----------------------------------------------------------------------------
(* Claims about the headers of the outgoing request (SpecHeaders) *)

\* the request has been handed to fetch()
Dispatched == pc \in {"fetching", "responded"}

Sent == outgoing.headers

ApiKeyAuth == Truthy(config.apiKey)
BearerAuth == ~Truthy(config.apiKey) /\ Truthy(config.authToken)

\* the spellings under which the header n (lower case) occurs in an object
Spellings(o, n) == {k \in ObjKeys(o) : LowerName(k) = n}

\* the header n occurs in the defaults and the call's headers under one spelling at most
OneSpelling(n) ==
    Cardinality(Spellings(config.defaultHeaders, n) \cup Spellings(options.headers, n)) <= 1

InCall(n) == Spellings(options.headers, n) # {}
InDefaults(n) == Spellings(config.defaultHeaders, n) # {}
CallValue(n) == ObjGet(options.headers, CHOOSE k \in Spellings(options.headers, n) : TRUE)
DefaultValue(n) ==
    ObjGet(config.defaultHeaders, CHOOSE k \in Spellings(config.defaultHeaders, n) : TRUE)

\* C1: with apiKey configured, every dispatched request carries X-API-Key equal to
\* the configured key, X-Organization-ID equal to the configured organizationId
\* when one is configured, and no Authorization header, whatever authToken, the
\* default headers and the call-level headers are.
C1_ApiKeyHeaders ==
    (Dispatched /\ ApiKeyAuth) =>
        /\ "x-api-key" \in DOMAIN Sent /\ Sent["x-api-key"] = config.apiKey
        /\ Truthy(config.organizationId) =>
              ("x-organization-id" \in DOMAIN Sent
               /\ Sent["x-organization-id"] = config.organizationId)
        /\ "authorization" \notin DOMAIN Sent

\* apiKey, authToken and organizationId configured; the call supplies its own
\* Authorization, X-API-Key or X-Organization-ID headers
C1_Witness ==
    /\ pc = "fetching"
    /\ ApiKeyAuth /\ Truthy(config.authToken) /\ Truthy(config.organizationId)
    /\ InDefaults("authorization")
    /\ InCall("authorization") /\ InCall("x-organization-id")
    /\ Sent["x-organization-id"] = config.organizationId

\* C2: no dispatched request carries both X-API-Key and Authorization, whatever
\* the config and the call-level headers are.
C2_Exclusive ==
    Dispatched => ~("x-api-key" \in DOMAIN Sent /\ "authorization" \in DOMAIN Sent)

\* C3: with authToken configured and apiKey not, every dispatched request carries
\* Authorization equal to "Bearer <authToken>" and no X-API-Key header.
C3_BearerOnly ==
    (Dispatched /\ BearerAuth) =>
        /\ "authorization" \in DOMAIN Sent
        /\ Sent["authorization"] = "Bearer " \o config.authToken
        /\ "x-api-key" \notin DOMAIN Sent

\* C4 as stated: a call-specific header is above the output of the auth step, so
\* a call-specific X-Organization-ID or other non-exclusive header is sent with
\* the call's value.
C4_CallAboveAuth ==
    Dispatched =>
        \A n \in DOMAIN Sent \ {"x-api-key", "authorization"} :
            (OneSpelling(n) /\ InCall(n)) => Sent[n] = CallValue(n)

\* the headers the auth step writes whatever is there, and the value it writes
AuthForces(n) ==
    \/ ApiKeyAuth /\ n = "x-api-key"
    \/ ApiKeyAuth /\ n = "x-organization-id" /\ Truthy(config.organizationId)
    \/ BearerAuth /\ n = "authorization"

AuthValue(n) ==
    IF n = "x-api-key" THEN config.apiKey
    ELSE IF n = "x-organization-id" THEN config.organizationId
    ELSE "Bearer " \o config.authToken

AllNames == {LowerName(k) : k \in HeaderKeys \cup {"Content-Type"}}

\* C4 amended: the precedence is client defaults < call-specific headers < auth
\* step. A header the auth step sets carries the configured value even when the
\* call supplies it, Authorization is removed under API-key authentication, any
\* other header given in one spelling carries the call's value, else the
\* default's; the X-Organization-ID of bearer authentication alone is below the
\* defaults: it is sent only when neither layer supplies the header.
C4_Precedence ==
    Dispatched =>
        \A n \in AllNames :
            OneSpelling(n) =>
                IF AuthForces(n) THEN n \in DOMAIN Sent /\ Sent[n] = AuthValue(n)
                ELSE IF ApiKeyAuth /\ n = "authorization" THEN n \notin DOMAIN Sent
                ELSE IF InCall(n) THEN n \in DOMAIN Sent /\ Sent[n] = CallValue(n)
                ELSE IF InDefaults(n) THEN n \in DOMAIN Sent /\ Sent[n] = DefaultValue(n)
                ELSE IF BearerAuth /\ n = "x-organization-id" /\ Truthy(config.organizationId)
                THEN n \in DOMAIN Sent /\ Sent[n] = config.organizationId
                ELSE n \notin DOMAIN Sent

\* one header in the defaults and in the call, another in the call and set by auth
C4_Witness ==
    /\ pc = "fetching"
    /\ ApiKeyAuth /\ Truthy(config.organizationId)
    /\ InCall("x-organization-id") /\ OneSpelling("x-organization-id")
    /\ InCall("x-wallet-id") /\ InDefaults("x-wallet-id")
    /\ Sent["x-wallet-id"] = "call"
    /\ Sent["x-organization-id"] = config.organizationId

\* C5 as stated: under bearer authentication with organizationId configured,
\* X-Organization-ID is the configured id when the call gives none, and the
\* call's value when the call gives one.
C5_OrgUnlessCall ==
    (Dispatched /\ BearerAuth /\ Truthy(config.organizationId)) =>
        /\ ~InCall("x-organization-id") => Sent["x-organization-id"] = config.organizationId
        /\ (InCall("x-organization-id") /\ OneSpelling("x-organization-id")) =>
              Sent["x-organization-id"] = CallValue("x-organization-id")

\* C5 amended: under bearer authentication with organizationId configured,
\* X-Organization-ID is the configured id when neither the call nor the default
\* headers give one (in any letter case); a call-level value is sent unchanged;
\* with none in the call, a default header's value is sent instead of the id.
C5_OrgUnlessPresent ==
    (Dispatched /\ BearerAuth /\ Truthy(config.organizationId)) =>
        LET n == "x-organization-id"
        IN /\ n \in DOMAIN Sent
           /\ (~InCall(n) /\ ~InDefaults(n)) => Sent[n] = config.organizationId
           /\ (InCall(n) /\ OneSpelling(n)) => Sent[n] = CallValue(n)
           /\ (~InCall(n) /\ InDefaults(n) /\ OneSpelling(n)) => Sent[n] = DefaultValue(n)

\* bearer authentication, the id configured, the header given by the call
C5_Witness ==
    /\ pc = "fetching"
    /\ BearerAuth /\ Truthy(config.organizationId)
    /\ InCall("x-organization-id") /\ ~InDefaults("x-organization-id")
    /\ Sent["x-organization-id"] = "call"

----------------------------------------------------------------------------
(* Claims about the interpretation of the response (SpecResponse) *)

\* request() has settled after fetch() resolved with a response
Interpreted == pc = "done" /\ response # NoResponse

Declared == options.expectedStatus

In2xx == response.status >= 200 /\ response.status <= 299

\* the response is neither 204 nor of content length zero
HasContent ==
    /\ response.status # 204
    /\ ~("content-length" \in DOMAIN response.headers /\ response.headers["content-length"] = "0")

\* the body can be read and is the text of a JSON value
BodyIsJson == response.body.readable /\ response.body.text \in JsonTexts(MaxWrapDepth)

Parsed == JSONParse(response.body.text, MaxWrapDepth)

\* an object with a boolean success flag and a data field
WrapperShape(v) ==
    /\ v.t = "object"
    /\ {"success", "data"} \subseteq DOMAIN v.f
    /\ v.f["success"].t = "boolean"

\* a wrapper whose flag is true
SuccessWrapper(v) == WrapperShape(v) /\ v.f["success"].v = TRUE

JsonContentType ==
    /\ "content-type" \in DOMAIN response.headers
    /\ response.headers["content-type"] = "application/json; charset=utf-8"

Thrown(name) == result.kind = "throw" /\ result.error.name = name

\* C6 as stated: a status outside 2xx that the call did not declare raises
\* AuthenticationError for 401 and 403 and otherwise an APIError with the status,
\* the headers and the body of the response (where there is a body to read),
\* parsed when the content type is JSON and as raw text otherwise.
C6_ErrorCarriesBody ==
    (Interpreted /\ ~In2xx /\ response.status # Declared) =>
        IF response.status \in {401, 403} THEN Thrown("AuthenticationError")
        ELSE /\ Thrown("APIError")
             /\ result.error.status = response.status
             /\ result.error.headers = response.headers
             /\ (response.body.readable /\ response.body.text # TxtEmpty) =>
                    result.error.responseBody =
                        (IF JsonContentType THEN ResponseJson(response)
                         ELSE ResponseText(response))

\* C6 amended: as stated, but the APIError carries null in place of the body when
\* the body cannot be read, or when the content type is JSON and the body does
\* not parse. The error kind depends on the status only.
C6_ErrorKindByStatus ==
    (Interpreted /\ ~In2xx /\ response.status # Declared) =>
        IF response.status \in {401, 403} THEN Thrown("AuthenticationError")
        ELSE /\ Thrown("APIError")
             /\ result.error.status = response.status
             /\ result.error.headers = response.headers
             /\ result.error.responseBody =
                    (IF ~response.body.readable THEN JNull
                     ELSE IF ~JsonContentType THEN JStr(response.body.text)
                     ELSE IF BodyIsJson THEN Parsed
                     ELSE JNull)

\* a 404 whose content type is JSON raises APIError with the parsed body attached
C6_Witness ==
    /\ Interpreted
    /\ response.status = 404 /\ JsonContentType /\ response.body = Body(TxtError)
    /\ Thrown("APIError")
    /\ result.error.status = 404
    /\ result.error.responseBody = JObj([error |-> JStr("not found")])

\* C7 as stated: a 2xx response with content whose body parses and is not a success
\* wrapper returns the parsed body, whatever expectedStatus the call declared.
C7_BodyWhateverExpected ==
    (Interpreted /\ In2xx /\ HasContent /\ BodyIsJson /\ ~SuccessWrapper(Parsed)) =>
        result = Return(Parsed)

\* C7 amended: such a response returns the parsed body when the call declared no
\* expectedStatus or declared the status of the response; when the call declared
\* another status it raises the SDKError of the status mismatch.
C7_BodyUnlessMismatch ==
    (Interpreted /\ In2xx /\ HasContent /\ BodyIsJson /\ ~SuccessWrapper(Parsed)) =>
        IF Declared = NoExpectedStatus \/ Declared = response.status
        THEN result = Return(Parsed)
        ELSE /\ Thrown("SDKError")
             /\ result.error.message
                    = "Unexpected successful response structure or status mismatch"

\* 201 declared, 200 received with a bare body: the call raises the mismatch error
C7_Witness ==
    /\ Interpreted /\ HasContent /\ response.body = Body(TxtId)
    /\ Declared = 201 /\ response.status = 200
    /\ Thrown("SDKError")

\* C8: a response whose status is the expectedStatus the call declared is not an
\* error, also outside 2xx: with content and a JSON body the call returns the
\* parsed body, unwrapped if it is a success wrapper. The declaration holds for
\* that call only: a status outside 2xx that the current call did not declare
\* raises APIError or AuthenticationError, whatever the previous call declared.
C8_ExpectedStatusPerCall ==
    Interpreted =>
        /\ (Declared # NoExpectedStatus /\ response.status = Declared) =>
              /\ ~Thrown("APIError") /\ ~Thrown("AuthenticationError")
              /\ (HasContent /\ BodyIsJson) =>
                    result = Return(IF SuccessWrapper(Parsed) THEN Parsed.f["data"] ELSE Parsed)
        /\ (~In2xx /\ response.status # Declared) =>
              (Thrown("APIError") \/ Thrown("AuthenticationError"))

\* 304 declared and received: the call returns the body; the previous call of the
\* client had declared 401
C8_Witness ==
    /\ Interpreted
    /\ prev = 401 /\ Declared = 304 /\ response.status = 304 /\ HasContent
    /\ response.body = Body(TxtId) /\ result = Return(JId)

\* the response in hand with its body put into a success wrapper
Wrapped == [response EXCEPT !.body = Body(WrapText(response.body.text))]

\* the call accepts the response: it passes the error gate and has content
Accepted == Interpreted /\ (In2xx \/ response.status = Declared) /\ HasContent

\* C9 as stated: for every payload p and every success status, the body p and the
\* body {success: true, data: p} both make the call return p.
C9_WrappedSameAsBare ==
    (Accepted /\ BodyIsJson) =>
        /\ result = Return(Parsed)
        /\ InterpretResponse(Wrapped, Declared) = Return(Parsed)

\* C9 amended: for every payload p that is not itself a success wrapper, and every
\* response the call accepts with the status it expects (2xx when it declared
\* none, else the declared one), the body p and the body {success: true, data: p}
\* both make the call return p. A success wrapper is unwrapped one level, to its
\* data field, whatever that field holds.
C9_UnwrapOneLevel ==
    (Accepted /\ BodyIsJson) =>
        /\ InterpretResponse(Wrapped, Declared) = Return(Parsed)
        /\ SuccessWrapper(Parsed) => result = Return(Parsed.f["data"])
        /\ (~SuccessWrapper(Parsed)
            /\ (Declared = NoExpectedStatus \/ Declared = response.status)) =>
                result = Return(Parsed)

\* the wrapped payload answered with the payload
C9_Witness ==
    /\ Accepted /\ response.status = 200 /\ Declared = NoExpectedStatus
    /\ response.body = Body(WrapText(TxtId)) /\ result = Return(JId)

\* C10 as stated: a returned value is never an object with the boolean success
\* flag and the data field.
C10_NeverWrapperShape ==
    (Interpreted /\ result.kind = "return" /\ result.value # JUndefined) =>
        ~WrapperShape(result.value)

\* C10 amended: a body that is a success wrapper (success true, data present) is
\* never returned itself: the call returns its data field. A returned value of
\* wrapper shape is either the whole body, whose flag is then false, or the data
\* field of a success wrapper, which is returned as it is.
C10_NeverSuccessWrapperBody ==
    (Interpreted /\ result.kind = "return" /\ result.value # JUndefined) =>
        /\ BodyIsJson
        /\ SuccessWrapper(Parsed) => (result.value = Parsed.f["data"] /\ result.value # Parsed)
        /\ WrapperShape(result.value) =>
              \/ result.value = Parsed /\ result.value.f["success"].v = FALSE
              \/ SuccessWrapper(Parsed) /\ result.value = Parsed.f["data"]

\* a success wrapper answered with its data field
C10_Witness ==
    /\ Interpreted /\ In2xx /\ response.body = Body(WrapText(TxtArray))
    /\ result = Return(JArr(<<JId>>))

----------------------------------------------------------------------------
(* Claims about responses without content and bodies that are not JSON *)
(* (SpecResponse) *)

\* the response passed the error gate: 2xx, or the status the call declared
PassedGate == Interpreted /\ (In2xx \/ response.status = Declared)

\* C11: a response that passed the error gate with status 204 or with
\* Content-Length '0' makes the call return undefined, and the body is never
\* read or parsed, so that a body that is not JSON raises nothing.
C11_NoContentIsUndefined ==
    (PassedGate /\ ~HasContent) => (result = Return(JUndefined) /\ ~bodyUsed)

\* a 200 of content length zero whose body is not JSON answered with undefined
C11_Witness ==
    /\ PassedGate /\ response.status = 200 /\ ~HasContent
    /\ response.body = Body(TxtHtml)
    /\ result = Return(JUndefined) /\ ~bodyUsed

\* C12: a response that passed the error gate and has content, whose body is
\* not valid JSON (or cannot be read), raises an SDKError that is none of its
\* subclasses; the call never returns.
C12_UnparsableIsSDKError ==
    (Accepted /\ ~BodyIsJson) =>
        /\ result = ParseFailure
        /\ Thrown("SDKError")
        /\ bodyUsed

\* a 200 with an HTML body and a declared 304 with an unreadable body, both
\* raising the SDKError of the parse failure
C12_Witness ==
    /\ Accepted /\ Thrown("SDKError")
    /\ \/ response.status = 200 /\ response.body = Body(TxtHtml)
       \/ response.status = 304 /\ response.body = UnreadableBody

----------------------------------------------------------------------------
(* Claims about transport failures, cancellation and timeout (SpecSignals) *)

\* fetch() of the call in progress was rejected with the error e
FetchFailedWith(e) == pc = "done" /\ transport.error = e

SourceAborted == \E n \in Sources : signals[n] = "aborted"

RequestAborted == Throw(SDKError("Request aborted"))

TimedOut ==
    /\ Thrown("NetworkError")
    /\ result.error.message = "Request timed out after"

\* C16: a failure of the transport that does not come from the combined signal
\* raises a NetworkError whose cause is the error fetch() rejected with, never
\* an APIError, an AuthenticationError or a plain SDKError.
C16_TransportFailureIsNetworkError ==
    \A e \in TransportErrors :
        FetchFailedWith(e) =>
            /\ Thrown("NetworkError")
            /\ result = Throw(NetworkError("Network request failed", e))
            /\ result.error.cause = e

\* the connection failed while the caller's signal and the timeout were armed
C16_Witness ==
    /\ FetchFailedWith(FetchError("TypeError", FALSE, "fetch failed"))
    /\ signals.signal = "armed" /\ signals.timeoutSignal = "armed"
    /\ result.error.cause = FetchError("TypeError", FALSE, "fetch failed")

\* C17: during a call the signal handed to fetch() is aborted exactly when one
\* of its sources (the caller's signal, the internal controller's signal, the
\* timeout signal) is aborted: it aborts in the step in which the first source
\* aborts, is aborted from the start when a source was aborted at composition,
\* and is not aborted while no source is.
C17_CombinedFollowsSources ==
    (pc # "idle") => (Aborted(signals) <=> SourceAborted)

\* the timeout fired alone and the combined signal is aborted while the
\* caller's signal is still armed
C17_Witness ==
    /\ pc = "done" /\ Aborted(signals)
    /\ signals.timeoutSignal = "aborted" /\ signals.signal = "armed"

\* C18: when the abort of the combined signal ended fetch(), the error tells
\* the source that aborted first: 'Request aborted' (SDKError) for the caller's
\* signal, 'Request timed out' (NetworkError) for the timeout, also when the
\* other source aborts afterwards.
C18_OutcomeNamesFirstSource ==
    (FetchFailedWith(AbortError) \/ FetchFailedWith(TimeoutError)) =>
        /\ signals.first \in {"signal", "timeoutSignal"}
        /\ signals.first = "signal" => (result = RequestAborted /\ ~TimedOut)
        /\ signals.first = "timeoutSignal" => (TimedOut /\ result # RequestAborted)

\* the caller aborted the pending fetch(), the timeout expired afterwards, and
\* the call raised 'Request aborted'
C18_Witness ==
    /\ FetchFailedWith(AbortError)
    /\ signals.first = "signal" /\ signals.timeoutSignal = "aborted"
    /\ options.signal = "armed"
    /\ result = RequestAborted

\* C19 as stated: once fetch() has resolved with a response, the outcome of the
\* call is the interpretation of that response, whatever signal fires afterwards.
C19_ResponseDecides ==
    Interpreted => result = InterpretResponse(response, Declared)

\* C20: a call makes one call of fetch() at most; once it has settled its
\* outcome stays as it is until the caller has it, whatever fires or arrives
\* afterwards, and no further fetch() is made.
C20_SingleAttempt ==
    [][/\ transport'.fetches <= 1
       /\ pc = "done" =>
            \/ pc' = "idle"
            \/ pc' = "done" /\ result' = result /\ transport'.fetches = transport.fetches]_vars

\* the call was aborted or timed out, raised its error, and the response that
\* arrived afterwards left the error in place
C20_Witness ==
    /\ FetchFailedWith(AbortError)
    /\ transport.fetches = 1
    /\ transport.late # NoResponse /\ transport.late.status = 200
    /\ result.kind = "throw"

----------------------------------------------------------------------------
(* Claims about the resource methods (SpecResource) *)

\* the method in progress was called with arguments that break its input
\* schema or lack a required id
InvalidCall == api.phase # "none" /\ api.input \in InvalidArgs(api.method)

Raised(name) == api.outcome.kind = "throw" /\ api.outcome.error.name = name

\* C13: a resource method called with an input that fails its validation
\* (schema failure or missing id) raises before request() is called: no
\* fetch() is made and nothing is handed to the transport.
C13_InvalidInputNoRequest ==
    InvalidCall =>
        /\ api.phase = "returned"
        /\ api.outcome.kind = "throw"
        /\ api.response = Pending
        /\ pc = "idle"
        /\ transport.fetches = 0
        /\ outgoing = NoRequest

\* wallets.create without a name and wallets.list with limit 0 both raised with
\* no fetch() made
C13_Witness ==
    /\ api.phase = "returned" /\ transport.fetches = 0
    /\ \/ /\ api.method = "WalletsAPI.create"
          /\ api.input.data.t = "object" /\ "name" \notin DOMAIN api.input.data.f
       \/ api.method = "WalletsAPI.list" /\ api.input.data = JObj([limit |-> JNum(0)])
    /\ api.outcome.kind = "throw"

\* C14 as stated, in its part on the type of the error: every input that fails
\* the validation of a resource method (WalletsAPI.create, list,
\* listTransactions, the id checks) raises a ValidationError, never an error
\* of another type.
C14_AlwaysValidationError ==
    (InvalidCall /\ api.phase = "returned") => Raised("ValidationError")

\* the value request() returned does not match the schema of the method
OutputMismatch ==
    /\ api.phase = "returned"
    /\ api.method \in ParsingMethods
    /\ api.response.kind = "return"
    /\ SchemaIssues(OutputSchema(api.method), api.response.value, <<>>) # <<>>

\* C15 as stated: when request() returned a value (the HTTP layer reported
\* success) that does not match the output schema of the method, the method
\* raises a ValidationError and returns nothing.
C15_OutputMismatchIsValidationError ==
    OutputMismatch => Raised("ValidationError")

----------------------------------------------------------------------------
(* Claims about a 2xx response whose status is not the declared one *)
(* (SpecResponse) *)

\* the call declared a status, the response has another status of the 2xx
\* range, has content, and its body parses
DeclaredMismatch ==
    /\ Interpreted /\ Declared # NoExpectedStatus
    /\ In2xx /\ response.status # Declared
    /\ HasContent /\ BodyIsJson

MismatchError ==
    /\ Thrown("SDKError")
    /\ result.error.message = "Unexpected successful response structure or status mismatch"

\* C30: when the call declared an expectedStatus and the response has another
\* status of the 2xx range (not 204, content length not zero), a success
\* wrapper is still unwrapped and its data returned, every other parsed body
\* raises the SDKError of the status mismatch, and that SDKError is raised in
\* no other situation.
C30_MismatchOnlyForBareBody ==
    /\ (DeclaredMismatch /\ SuccessWrapper(Parsed)) => result = Return(Parsed.f["data"])
    /\ (DeclaredMismatch /\ ~SuccessWrapper(Parsed)) => MismatchError
    /\ MismatchError => (DeclaredMismatch /\ ~SuccessWrapper(Parsed))

\* 201 declared and 200 received with the body null: the call raised the
\* mismatch error
C30_Witness ==
    /\ DeclaredMismatch /\ Declared = 201 /\ response.status = 200
    /\ response.body = Body(TxtNull) /\ MismatchError

----------------------------------------------------------------------------
(* Claims about the address, the query and the body of the outgoing request *)
(* (SpecRequest) *)

\* the call handed a request to fetch()
Fetched == pc # "idle" /\ transport.fetches = 1

\* the body of the call is an object that JSON.stringify cannot serialize
Unserializable == pc # "idle" /\ options.body.t = "object" /\ "cyclic" \in DOMAIN options.body

\* C21: a body that is a non-string object and cannot be serialized to JSON
\* makes request() raise a plain SDKError (not a NetworkError), and no call of
\* fetch() is made for it.
C21_UnserializableIsSDKError ==
    Unserializable =>
        /\ pc = "done"
        /\ result = Throw(SDKError("Failed to stringify request body as JSON"))
        /\ ~Thrown("NetworkError")
        /\ transport.fetches = 0
        /\ outgoing = NoRequest

\* a call with a body that refers to itself raised the SDKError, no fetch() made
C21_Witness ==
    /\ Unserializable /\ Thrown("SDKError") /\ transport.fetches = 0
    /\ "Content-Type" \in ObjKeys(options.headers)

\* the Content-Type the caller set, in the call or else in the config's
\* defaultHeaders; application/json where neither has one
CallerContentType ==
    IF "Content-Type" \in ObjKeys(options.headers)
    THEN ObjGet(options.headers, "Content-Type")
    ELSE ObjGet(config.defaultHeaders, "Content-Type")

\* C22 as stated: a string, FormData, URLSearchParams or Blob body is sent
\* unchanged and without a Content-Type header; every other body (given, and
\* serializable) is sent as its JSON text with Content-Type application/json,
\* or with the caller's Content-Type where the caller set one; also for the
\* falsy bodies "", 0 and false.
C22_BodyAndContentType ==
    (pc # "idle" /\ options.body.t \notin {"undefined", "null"} /\ ~Unserializable) =>
        /\ Fetched
        /\ IF IsPayload(options.body)
           THEN /\ outgoing.body = options.body
                /\ ~HeadersHas(outgoing.headers, "Content-Type")
           ELSE /\ outgoing.body = JSONStringify(options.body)
                /\ HeadersGet(outgoing.headers, "Content-Type") = CallerContentType

\* the query the claim expects: undefined and null dropped, the order kept,
\* dates as ISO-8601 strings, every other value in its string form
ExpectedQuery ==
    LET kept == formatQueryParams(options.queryParams)
    IN [i \in DOMAIN kept |-> Entry(kept[i].k, StringOf(kept[i].v))]

\* C23 as stated: the query of the outgoing request has exactly the keys whose
\* value is neither undefined nor null, in the order given, every Date as its
\* ISO-8601 string and every other value as its string form.
C23_QueryAsFormatted ==
    Fetched => outgoing.url.searchParams = ExpectedQuery

RECURSIVE StripTrailing(_)
StripTrailing(str) ==
    IF str # <<>> /\ str[Len(str)] = "/" THEN StripTrailing(SubSeq(str, 1, Len(str) - 1))
    ELSE str

RECURSIVE StripLeading(_)
StripLeading(str) ==
    IF str # <<>> /\ Head(str) = "/" THEN StripLeading(Tail(str)) ELSE str

\* C24 as stated: for a base address with zero, one or several trailing slashes
\* and a path with zero, one or several leading slashes, the address of the
\* outgoing request is the base address without its trailing slashes, one
\* "/", and the path without its leading slashes.
C24_OneSeparatingSlash ==
    Fetched =>
        outgoing.url.href = StripTrailing(config.baseURL) \o <<"/">> \o StripLeading(options.path)

----------------------------------------------------------------------------
(* Claims about repeated aborts and about termination under a timeout *)
(* (SpecSignals, SpecSignalsFair) *)

C28_TimeoutEndsCall ==
    /\ (pc = "fetching" /\ config.timeout # NoTimeout) ~> (pc = "done")
    /\ [](/\ pc = "done" /\ response = NoResponse
          /\ signals.first = "timeoutSignal" /\ transport.error = AbortError
          => TimedOut)

\* no response ever arrived, the timeout fired with the caller's signal still
\* armed, and the call settled with 'Request timed out'
C28_Witness ==
    /\ pc = "done" /\ response = NoResponse /\ transport.late = NoResponse
    /\ config.timeout # NoTimeout
    /\ signals.timeoutSignal = "aborted" /\ signals.signal # "aborted"
    /\ TimedOut

----------------------------------------------------------------------------
(* Claims about the config and about concurrent calls (SpecConcurrent) *)

\* the variables of the call that is running
Running ==
    [pc |-> pc, options |-> options, outgoing |-> outgoing, response |-> response,
     result |-> result, signals |-> signals, transport |-> transport, bodyUsed |-> bodyUsed]

\* the call with the variables c has handed to fetch() and has settled as a call
\* with its options and its transport outcome does when it is the only call
AsAlone(c) ==
    /\ c.transport.fetches = 1 =>
            LET prepared == PrepareBody(PrepareHeaders(config, c.options.headers),
                                        c.options.body)
            IN c.outgoing = [url |-> RequestURL(config, c.options.path, c.options.queryParams),
                             headers |-> prepared.headers,
                             body |-> prepared.requestBody]
    /\ (c.pc = "done" /\ c.response # NoResponse) =>
            c.result = InterpretResponse(c.response, c.options.expectedStatus)
    /\ (c.pc = "done" /\ c.response = NoResponse) =>
            c.result = HandleFetchError(c.transport.error, FALSE)
    /\ c.pc \in {"fetching", "responded"} => c.result = Pending

----------------------------------------------------------------------------
(* Claims about the transforms of the create methods (SpecResource) *)

\* the fields the entities have in both directions, under their names in the SDK
Bidirectional == {"userId", "organizationId", "expiresAt", "name", "metadata", "permissions"}

\* the name of a field on the wire
WireName(k) ==
    CASE k = "userId" -> "user_id"
      [] k = "organizationId" -> "organization_id"
      [] k = "expiresAt" -> "expires_at"
      [] OTHER -> k

\* a create method has returned a decoded entity, and the value request()
\* returned to it has every field of the encoded body with the value sent
EchoedCreate ==
    /\ api.phase = "returned"
    /\ api.method \in {"WalletsAPI.create", "ApiKeysAPI.create"}
    /\ api.outcome.kind = "return"
    /\ \A k \in DOMAIN outgoing.body.json.f :
            Field(api.response.value, k) = outgoing.body.json.f[k]

\* C25 as stated: for wallet create/WalletSchema and API-key
\* create/ApiKeyResponseSchema, a value encoded by the outbound transform,
\* echoed by the wire and decoded by the inbound transform has, in every
\* bidirectional field it defines (userId, organizationId, expiresAt, name,
\* metadata, permissions), a value equal to the original.
C25_RoundTrip ==
    EchoedCreate =>
        \A k \in Bidirectional \cap DOMAIN api.input.data.f :
            /\ outgoing.body.json.f[WireName(k)] = api.input.data.f[k]
            /\ Field(api.outcome.value, k) = api.input.data.f[k]

----------------------------------------------------------------------------
(* Claims about ContractsAPI.executeContractFunctionByName (SpecResource) *)

\* executeContractFunctionByName is in progress or has returned, and its
\* contract address, network, function name and verification headers passed the
\* checks that come before the resolution of the wallet address
ResolvingCall ==
    /\ api.method = ExecuteByName
    /\ api.phase # "none"
    /\ api.input.id # ""
    /\ api.input.data.network # ""
    /\ api.input.data.functionName # ""
    /\ LET h == api.input.data.verificationHeaders
           given == ObjKeys(h) \cap {"X-Wallet-ID", "X-Wallet-Address"}
       IN given # {} /\ \A k \in given : ObjGet(h, k) # ""

\* the caller's parameters, the empty object when it passed none
CallerParameters ==
    IF api.input.data.parameters.t = "object" THEN api.input.data.parameters.f ELSE <<>>

\* the wallet address of the call: parameters.walletAddress, otherwise the
\* X-Wallet-Address header, otherwise none
ResolvedAddress ==
    LET h == api.input.data.verificationHeaders
    IN IF "walletAddress" \in DOMAIN CallerParameters
          /\ CallerParameters["walletAddress"] # JStr("")
       THEN CallerParameters["walletAddress"]
       ELSE IF "X-Wallet-Address" \in ObjKeys(h) THEN JStr(ObjGet(h, "X-Wallet-Address"))
       ELSE JUndefined

\* C29: executeContractFunctionByName, called with arguments that reach the
\* resolution of the wallet address, takes the address from
\* parameters.walletAddress first and otherwise from the X-Wallet-Address
\* header. When neither yields an address it raises a ValidationError and no
\* request is dispatched. Otherwise one request is dispatched whose body is
\* {network, parameters, wallet_address}, with the resolved address as
\* wallet_address and every caller parameter except walletAddress as
\* parameters. In both cases the caller's parameters object is as it was.
C29_WalletAddressResolution ==
    ResolvingCall =>
        /\ api.after = api.input
        /\ IF ResolvedAddress = JUndefined
           THEN /\ api.phase = "returned"
                /\ Raised("ValidationError")
                /\ transport.fetches = 0
                /\ outgoing = NoRequest
           ELSE /\ transport.fetches = 1
                /\ outgoing.body.json =
                        JObj([network |-> JStr(api.input.data.network),
                              parameters |->
                                JObj([k \in DOMAIN CallerParameters \ {"walletAddress"} |->
                                        CallerParameters[k]]),
                              wallet_address |-> ResolvedAddress])

\* a call with both verification headers and with parameters {walletAddress,
\* amount} was dispatched with the address of the parameters as wallet_address
\* and {amount} as parameters, and the caller's object still has walletAddress
C29_Witness ==
    /\ api.method = ExecuteByName /\ api.phase = "awaiting"
    /\ ObjKeys(api.input.data.verificationHeaders) = {"X-Wallet-ID", "X-Wallet-Address"}
    /\ api.input.data.parameters = JObj([walletAddress |-> JStr("0xdef"), amount |-> JNum(5)])
    /\ transport.fetches = 1
    /\ outgoing.body.json.f["wallet_address"] = JStr("0xdef")
    /\ outgoing.body.json.f["parameters"] = JObj([amount |-> JNum(5)])
    /\ api.after.data.parameters = api.input.data.parameters

====
